---- MODULE Spec2Model ----
(***************************************************************************)
(* A model of the AngelScript language server's workspace analysis         *)
(* resolver (AnalysisResolver) and of its hoist phase (hoistAfterParsed).  *)
(*                                                                         *)
(* Specification Spec is the resolver: the record map, the three           *)
(* re-analysis tiers, the delayed analyzer task, flush and the per-file    *)
(* analysis with its include collection and diagnostics publication.       *)
(*                                                                         *)
(* Specification SpecHoist is one file's analysis pass: hoistAfterParsed   *)
(* with its hoist queue, then the drain of the analyze queue, run on a     *)
(* script built from a fixed set of declarations.                          *)
(***************************************************************************)
EXTENDS Integers, Sequences, FiniteSets, TLC

VARIABLES
    world,                        \* the files on disk, their #include tokens, the open documents, the settings
    recordList,                   \* AnalysisResolver.recordList, in insertion order
    directQueue,                  \* AnalysisQueue: the direct tier
    indirectQueue,                \* AnalysisQueue: the indirect tier
    lazyIndirectQueue,            \* AnalysisQueue: the lazy-indirect tier
    analyzerTask,                 \* AnalysisResolver._analyzerTask: the wait times of its timeouts that have not fired yet
    resolvedPredefinedFilepaths,  \* AnalysisResolver._resolvedPredefinedFilepaths
    diagnostic,                   \* the parser-side diagnostic sink (core/diagnostic)
    clock,                        \* the number of analyses run so far
    enqueued,                     \* the number of queue elements created so far
    edits,                        \* the number of user edits so far
    lastOp,                       \* the handler that ran last and its argument
    published,                    \* the diagnosticsCallback calls of the handler that ran last
    popLog,                       \* the popAndAnalyze calls of the handler that ran last
    script,                       \* the AST (NodeScript) of the file that is hoisted
    explicitPropertyAccessor,     \* the setting of that name
    hoistEnumParentScope,         \* the setting of that name
    globalScope,                  \* the scopes and the symbols of the file's global scope
    analyzeQueue,                 \* the analyze queue of the HoistResult
    analyzerDiagnostic,           \* the analyzer's diagnostic sink
    s_uniqueIdentifier,           \* the counter of createAnonymousIdentifier
    hoistPhase,                   \* "parsed", "hoisted" or "analyzed"
    executed,                     \* the deferred tasks run in this pass, in the order they ran
    passes,                       \* the number of passes started on the script
    previousPass,                 \* the result of the pass before this one
    response,                     \* the request of the editor that was served last, and its response
    tokens                        \* the token list handed to parseFromTokens

resolverVars == <<world, recordList, directQueue, indirectQueue, lazyIndirectQueue, analyzerTask,
                  resolvedPredefinedFilepaths, diagnostic, clock, enqueued, edits, lastOp,
                  published, popLog>>

hoistVars == <<script, explicitPropertyAccessor, hoistEnumParentScope, globalScope, analyzeQueue, analyzerDiagnostic,
               s_uniqueIdentifier, hoistPhase, executed, passes, previousPass>>

serviceVars == <<response, tokens>>

\* the hoist phase at rest, while the resolver runs, and no request served
HoistIdle ==
    /\ response = [method |-> "none"]
    /\ script = <<>>
    /\ explicitPropertyAccessor = FALSE
    /\ hoistEnumParentScope = FALSE
    /\ globalScope = [scopes |-> (<<>> :> [linkedNode |-> <<>>, symbolTable |-> <<>>, namespaceList |-> <<>>]),
                      symbols |-> <<>>]
    /\ analyzeQueue = <<>>
    /\ analyzerDiagnostic = <<>>
    /\ s_uniqueIdentifier = -1
    /\ hoistPhase = "parsed"
    /\ executed = <<>>
    /\ passes = 0
    /\ previousPass = [scopes |-> (<<>> :> [linkedNode |-> <<>>, symbolTable |-> <<>>, namespaceList |-> <<>>]),
                       symbols |-> <<>>, diagnostics |-> <<>>]

-----------------------------------------------------------------------------
(* Bounds *)

MaxEdits == 2

\* the number of top-level statements of a script
MaxStatements == 3

\* the number of analysis passes over one script
MaxPasses == 2

-----------------------------------------------------------------------------
(* Program constants *)

mediumWaitTime == 500
shortWaitTime == 100
veryShortWaitTime == 10
predefinedFileName == "as.predefined"

-----------------------------------------------------------------------------
(* URIs are sequences of path segments starting at the root "/".  A path   *)
(* of an include directive is a sequence of segments relative to the       *)
(* directory of the including file.                                        *)

None == <<>>

RootDir == <<"/">>
UriA == <<"/", "a.as">>
UriB == <<"/", "b.as">>
UriC == <<"/", "c.as">>
UriPredefined == <<"/", "as.predefined">>
SubDir == <<"/", "sub">>
UriD == <<"/", "sub", "d.as">>
UriSubPredefined == <<"/", "sub", "as.predefined">>

\* readdir order of the workspace directory
DiskOrder == <<UriA, UriB, UriC, UriPredefined, UriD, UriSubPredefined>>

SourceFiles == {UriA, UriB, UriC}

AsNames == {"a.as", "b.as", "c.as", "d.as", "missing.as"}

Last(q) == q[Len(q)]

Dir(uri) == SubSeq(uri, 1, Len(uri) - 1)

startsWith(uri, prefix) ==
    /\ Len(prefix) <= Len(uri)
    /\ SubSeq(uri, 1, Len(prefix)) = prefix

endsWithAs(uri) == Last(uri) \in AsNames

endsWithPredefined(uri) == Last(uri) = predefinedFileName

\* url.format(new URL(relativeUri, dir)); resolveUri(x, '.') is the directory of x
resolveUri(base, relative) ==
    IF relative = <<".">> THEN Dir(base)
    ELSE IF relative # <<>> /\ relative[1] = "/" THEN relative
    ELSE Dir(base) \o relative

RECURSIVE getParentDirectoryList(_)
getParentDirectoryList(uri) ==
    IF Len(uri) <= 1 THEN <<>>
    ELSE <<Dir(uri)>> \o getParentDirectoryList(Dir(uri))

readFileContent(uri) == uri \in world.disk

-----------------------------------------------------------------------------
(* Worlds *)

\* a.as includes b.as, b.as includes c.as
ChainGraph == (UriA :> << <<"b.as">> >>) @@ (UriB :> << <<"c.as">> >>) @@ (UriC :> <<>>)

\* a.as and b.as include c.as, a.as also includes a file that does not exist
FanGraph == (UriA :> << <<"c.as">>, <<"missing.as">> >>) @@ (UriB :> << <<"c.as">> >>) @@ (UriC :> <<>>)

\* a.as and b.as include each other
CycleGraph == (UriA :> << <<"b.as">> >>) @@ (UriB :> << <<"a.as">> >>) @@ (UriC :> <<>>)

IncludeGraphs == {ChainGraph, FanGraph, CycleGraph}

makeWorld(disk, graph, open, implicitMutualInclusion) ==
    [disk |-> disk,
     includes |-> graph @@ (UriPredefined :> <<>>),
     open |-> open,
     implicitMutualInclusion |-> implicitMutualInclusion]

Worlds ==
    {makeWorld(SourceFiles, graph, open, FALSE) : graph \in IncludeGraphs, open \in {{UriA}, {UriA, UriB}}}
    \cup {makeWorld(SourceFiles \cup {UriPredefined}, FanGraph, {UriA}, FALSE),
          makeWorld({UriA, UriB, UriPredefined}, ChainGraph, {UriA}, TRUE)}

-----------------------------------------------------------------------------
(* The record map.  A record is overwritten in place by a new inspection,  *)
(* so a queue element refers to its record by URI.  A record deleted from  *)
(* the map stays alive for the queue elements that hold it: it keeps its   *)
(* place with inMap off, and a later inspection of its URI takes the place.*)

emptyScope == [stamp |-> 0, ast |-> 0, includeScopes |-> <<>>]

RECURSIVE indexOf(_, _, _)
indexOf(records, uri, i) ==
    IF i > Len(records) THEN 0
    ELSE IF records[i].uri = uri THEN i
    ELSE indexOf(records, uri, i + 1)

hasRecord(records, uri) ==
    indexOf(records, uri, 1) # 0 /\ records[indexOf(records, uri, 1)].inMap

getRecord(records, uri) == records[indexOf(records, uri, 1)]

setRecord(records, record) ==
    IF indexOf(records, record.uri, 1) # 0
    THEN [records EXCEPT ![indexOf(records, record.uri, 1)] = record]
    ELSE Append(records, record)

uriOfEach(records) == [i \in 1..Len(records) |-> records[i].uri]

recordKeys(records) == uriOfEach(SelectSeq(records, LAMBDA record : record.inMap))

\* recordList.delete(uri), by the owner of the map
deleteRecord(records, uri) == [records EXCEPT ![indexOf(records, uri, 1)].inMap = FALSE]

\* the state the handlers of the resolver work on
resolverState ==
    [recordList |-> recordList, direct |-> directQueue, indirect |-> indirectQueue,
     lazyIndirect |-> lazyIndirectQueue, analyzerTask |-> analyzerTask,
     resolved |-> resolvedPredefinedFilepaths, diagnostic |-> diagnostic,
     analyzerDiagnostic |-> <<>>, clock |-> clock, enqueued |-> enqueued,
     published |-> <<>>, popLog |-> <<>>]

-----------------------------------------------------------------------------
(* AnalysisQueue: three FIFO tiers *)

hasDirect(s) == s.direct # <<>>

hasIndirect(s) == s.indirect # <<>>

hasLazyIndirect(s) == s.lazyIndirect # <<>>

inTier(queue, uri) == \E i \in 1..Len(queue) : queue[i].uri = uri

isInQueue(s, uri) ==
    inTier(s.direct, uri) \/ inTier(s.indirect, uri) \/ inTier(s.lazyIndirect, uri)

newElement(s, uri, shouldReanalyze) ==
    [uri |-> uri, shouldReanalyze |-> shouldReanalyze, seq |-> s.enqueued + 1]

pushDirect(s, uri, shouldReanalyze) ==
    [s EXCEPT !.direct = Append(@, newElement(s, uri, shouldReanalyze)),
              !.enqueued = @ + 1]

pushIndirect(s, uri) ==
    [s EXCEPT !.indirect = Append(@, newElement(s, uri, FALSE)),
              !.enqueued = @ + 1]

pushLazyIndirect(s, uri) ==
    [s EXCEPT !.lazyIndirect = Append(@, newElement(s, uri, FALSE)),
              !.enqueued = @ + 1]

withoutUri(queue, uri) == SelectSeq(queue, LAMBDA e : e.uri # uri)

\* the element is moved to the front of the direct tier
frontPushDirect(s, uri, shouldReanalyze) ==
    [s EXCEPT !.direct = <<newElement(s, uri, shouldReanalyze)>> \o withoutUri(@, uri),
              !.indirect = withoutUri(@, uri),
              !.lazyIndirect = withoutUri(@, uri),
              !.enqueued = @ + 1]

frontPop(s) ==
    IF hasDirect(s)
    THEN [s |-> [s EXCEPT !.direct = Tail(@)], element |-> Head(s.direct), tier |-> "direct"]
    ELSE IF hasIndirect(s)
    THEN [s |-> [s EXCEPT !.indirect = Tail(@)], element |-> Head(s.indirect), tier |-> "indirect"]
    ELSE IF hasLazyIndirect(s)
    THEN [s |-> [s EXCEPT !.lazyIndirect = Tail(@)], element |-> Head(s.lazyIndirect), tier |-> "lazyIndirect"]
    ELSE [s |-> s, element |-> None, tier |-> "none"]

-----------------------------------------------------------------------------
(* AnalysisResolver.request and the delayed task *)

\* a delayed task that sets a timeout without clearing the one it has
rescheduleKeepingTimeout(s, waitTime) == [s EXCEPT !.analyzerTask = Append(@, waitTime)]

\* DelayedTask.reschedule: the timeout of the task is cleared and a new one is set
reschedule(s, waitTime) == [s EXCEPT !.analyzerTask = <<waitTime>>]

\* a timeout that stays pending after it fired
expireAndRepeat(s, i) == s

\* the i-th timeout fires: it is no longer pending when its callback runs
expire(s, i) == [s EXCEPT !.analyzerTask = SubSeq(@, 1, i - 1) \o SubSeq(@, i + 1, Len(@))]

\* a scheduler that waits for the direct tier only
rescheduleAnalyzeDirectOnly(s) ==
    IF hasDirect(s) THEN reschedule(s, veryShortWaitTime) ELSE s

rescheduleAnalyze(s) ==
    IF hasDirect(s) THEN reschedule(s, veryShortWaitTime)
    ELSE IF hasIndirect(s) THEN reschedule(s, shortWaitTime)
    ELSE IF hasLazyIndirect(s) THEN reschedule(s, mediumWaitTime)
    ELSE s

\* a request whose analysis is not followed by that of the dependents
requestWithoutReanalysis(s, uri) == rescheduleAnalyze(pushDirect(s, uri, FALSE))

request(s, uri) == rescheduleAnalyze(pushDirect(s, uri, TRUE))

-----------------------------------------------------------------------------
(* The inspector: tokenizes and parses a file, stores the record and       *)
(* requests its analysis.                                                  *)

parserDiagnostic(uri, version) == [source |-> "parser", uri |-> uri, pass |-> version, token |-> 0]

analyzerDiagnosticOf(uri, stamp) == [source |-> "analyzer", uri |-> uri, pass |-> stamp, token |-> 0]

fileNotFound(uri, token) == [source |-> "File not found", uri |-> uri, pass |-> 0, token |-> token]

inspectFile(s, uri) ==
    LET known == hasRecord(s.recordList, uri)
        old == getRecord(s.recordList, uri)
        version == IF known THEN old.ast + 1 ELSE 1
        record == [uri |-> uri,
                   inMap |-> TRUE,
                   isOpen |-> uri \in world.open,
                   diagnosticsInParser |-> <<parserDiagnostic(uri, version)>>,
                   diagnosticsInAnalyzer |-> IF known THEN old.diagnosticsInAnalyzer ELSE <<>>,
                   rawTokens |-> version,
                   ast |-> version,
                   includePathTokens |-> world.includes[uri],
                   analyzerScope |-> IF known THEN old.analyzerScope ELSE emptyScope]
    IN request([s EXCEPT !.recordList = setRecord(@, record)], uri)

RECURSIVE inspectEach(_, _)
inspectEach(s, uris) ==
    IF uris = <<>> THEN s
    ELSE inspectEach(IF readFileContent(Head(uris)) THEN inspectFile(s, Head(uris)) ELSE s,
                     Tail(uris))

inspectUnderDirectory(s, dirUri) ==
    inspectEach(s, SelectSeq(DiskOrder,
                             LAMBDA uri : uri \in world.disk /\ startsWith(uri, dirUri) /\ endsWithAs(uri)))

-----------------------------------------------------------------------------
(* Predefined discovery and include resolution *)

RECURSIVE findPredefinedIn(_, _, _)
findPredefinedIn(s, targetUri, dirs) ==
    IF dirs = <<>> THEN [s |-> s, uri |-> None]
    ELSE LET predefinedUri == Append(Head(dirs), predefinedFileName) IN
         IF hasRecord(s.recordList, predefinedUri) /\ predefinedUri \in s.resolved
         THEN [s |-> s, uri |-> predefinedUri]
         ELSE IF targetUri # predefinedUri /\ ~readFileContent(predefinedUri)
         THEN findPredefinedIn(s, targetUri, Tail(dirs))
         ELSE LET s1 == IF targetUri # predefinedUri THEN inspectFile(s, predefinedUri) ELSE s
                  s2 == inspectUnderDirectory(s1, resolveUri(predefinedUri, <<".">>))
              IN [s |-> [s2 EXCEPT !.resolved = @ \cup {predefinedUri}], uri |-> predefinedUri]

findPredefinedUri(s, targetUri) ==
    findPredefinedIn(s, targetUri, getParentDirectoryList(targetUri))

\* an include resolution that adds as.predefined to the paths of every record
resolveIncludePathsOfAny(knownUris, record, predefinedUri) ==
    LET paths == IF /\ world.implicitMutualInclusion
                    /\ ~endsWithPredefined(record.uri)
                    /\ predefinedUri # None
                 THEN SelectSeq(knownUris,
                                LAMBDA uri : /\ startsWith(uri, resolveUri(predefinedUri, <<".">>))
                                             /\ endsWithAs(uri)
                                             /\ uri # record.uri)
                 ELSE record.includePathTokens
    IN IF predefinedUri # None THEN Append(paths, predefinedUri) ELSE paths

\* knownUris are the keys of the record map
resolveIncludePaths(knownUris, record, predefinedUri) ==
    LET explicit == record.includePathTokens
        paths == IF /\ world.implicitMutualInclusion
                    /\ ~endsWithPredefined(record.uri)
                    /\ predefinedUri # None
                 THEN SelectSeq(knownUris,
                                LAMBDA uri : /\ startsWith(uri, resolveUri(predefinedUri, <<".">>))
                                             /\ endsWithAs(uri)
                                             /\ uri # record.uri)
                 ELSE explicit
    IN IF record.uri # predefinedUri /\ predefinedUri # None
       THEN Append(paths, predefinedUri)
       ELSE paths

\* includePathTokens.find(token => token.getStringContent() === relativeOrAbsolute)
RECURSIVE findToken(_, _, _)
findToken(includeTokens, path, i) ==
    IF i > Len(includeTokens) THEN 0
    ELSE IF includeTokens[i] = path THEN i
    ELSE findToken(includeTokens, path, i + 1)

RECURSIVE collectEach(_, _, _, _)
collectEach(s, targetUri, includePaths, includedScopes) ==
    IF includePaths = <<>> THEN [s |-> s, scopes |-> includedScopes]
    ELSE LET relativeOrAbsolute == Head(includePaths)
             uri == resolveUri(targetUri, relativeOrAbsolute)
             rest == Tail(includePaths)
         IN IF hasRecord(s.recordList, uri)
            THEN collectEach(s, targetUri, rest,
                             Append(includedScopes,
                                    [uri |-> uri, stamp |-> getRecord(s.recordList, uri).analyzerScope.stamp]))
            ELSE IF readFileContent(uri)
            THEN collectEach(inspectFile(s, uri), targetUri, rest, includedScopes)
            ELSE LET includeTokens == getRecord(s.recordList, targetUri).includePathTokens
                     error == fileNotFound(targetUri, findToken(includeTokens, relativeOrAbsolute, 1))
                 IN collectEach([s EXCEPT !.diagnostic = Append(@, error)],
                                targetUri, rest, includedScopes)

collectIncludeScope(s, targetUri, predefinedUri) ==
    collectEach(s, targetUri,
                resolveIncludePaths(recordKeys(s.recordList), getRecord(s.recordList, targetUri),
                                    predefinedUri),
                <<>>)

-----------------------------------------------------------------------------
(* Per-file analysis *)

\* hoistAfterParsed and analyzeAfterHoisted on the record's AST: the scope
\* they build is stamped with the pass, and the pass reports to the
\* analyzer's sink
hoistAndAnalyze(s, record, includeScopes) ==
    [scope |-> [stamp |-> s.clock + 1, ast |-> record.ast, includeScopes |-> includeScopes],
     sink |-> Append(s.analyzerDiagnostic, analyzerDiagnosticOf(record.uri, s.clock + 1))]

\* a publication that leaves the parser's diagnostics out
publishedDiagnosticsAnalyzerOnly(record) == record.diagnosticsInAnalyzer

publishedDiagnostics(record) == record.diagnosticsInParser \o record.diagnosticsInAnalyzer

\* the pass over the record once its include scopes are collected
analyzeWithIncludes(collected, uri) ==
    LET s1 == [collected.s EXCEPT !.analyzerDiagnostic = <<>>]
        record == getRecord(s1.recordList, uri)
        result == hoistAndAnalyze(s1, record, collected.scopes)
        analyzed == [record EXCEPT !.analyzerScope = result.scope,
                                   !.diagnosticsInAnalyzer = result.sink]
    IN [s1 EXCEPT !.recordList = setRecord(@, analyzed),
                  !.analyzerDiagnostic = <<>>,
                  !.clock = @ + 1,
                  !.published = Append(@, [uri |-> uri, diagnostics |-> publishedDiagnostics(analyzed)])]

analyzeWithPredefined(found, uri) ==
    analyzeWithIncludes(collectIncludeScope(found.s, uri, found.uri), uri)

analyzeFile(s, uri) == analyzeWithPredefined(findPredefinedUri(s, uri), uri)

includesUri(knownUris, record, targetUri, predefinedUri) ==
    LET paths == resolveIncludePaths(knownUris, record, predefinedUri)
    IN \E i \in 1..Len(paths) : resolveUri(record.uri, paths[i]) = targetUri

\* the filter over Array.from(recordList.values())
RECURSIVE filterDepended(_, _, _, _)
\* the filter's predicate on the first of uris, with its predefined file found
filterFound(found, uris, targetUri, dependedFiles) ==
    filterDepended(found.s, Tail(uris), targetUri,
                   IF includesUri(recordKeys(found.s.recordList),
                                  getRecord(found.s.recordList, Head(uris)), targetUri, found.uri)
                   THEN Append(dependedFiles, Head(uris))
                   ELSE dependedFiles)

filterDepended(s, uris, targetUri, dependedFiles) ==
    IF uris = <<>> THEN [s |-> s, dependedFiles |-> dependedFiles]
    ELSE filterFound(findPredefinedUri(s, Head(uris)), uris, targetUri, dependedFiles)

\* a propagation that takes the closed files for the open ones
RECURSIVE pushDependedSwapped(_, _)
pushDependedSwapped(s, dependedFiles) ==
    IF dependedFiles = <<>> THEN s
    ELSE pushDependedSwapped(IF getRecord(s.recordList, Head(dependedFiles)).isOpen
                             THEN pushLazyIndirect(s, Head(dependedFiles))
                             ELSE pushIndirect(s, Head(dependedFiles)),
                             Tail(dependedFiles))

RECURSIVE pushDepended(_, _)
pushDepended(s, dependedFiles) ==
    IF dependedFiles = <<>> THEN s
    ELSE pushDepended(IF getRecord(s.recordList, Head(dependedFiles)).isOpen
                      THEN pushIndirect(s, Head(dependedFiles))
                      ELSE pushLazyIndirect(s, Head(dependedFiles)),
                      Tail(dependedFiles))

pushFiltered(filtered) == pushDepended(filtered.s, filtered.dependedFiles)

reanalyzeFilesWithDependency(s, targetUri) ==
    pushFiltered(filterDepended(s, recordKeys(s.recordList), targetUri, <<>>))

-----------------------------------------------------------------------------
(* The scheduler *)

uriList(queue) == [i \in 1..Len(queue) |-> queue[i].uri]

retokenized(before, after) ==
    {before[i].uri : i \in {j \in 1..Len(before) : before[j].rawTokens # after[j].rawTokens
                                                     \/ before[j].ast # after[j].ast}}

\* the history of the pop: s before it, s1 after the analysis, s2 after the
\* propagation
logPopped(s, popped, s1, s2) ==
    LET element == popped.element
        entry == [uri |-> element.uri,
                  tier |-> popped.tier,
                  shouldReanalyze |-> element.shouldReanalyze,
                  seq |-> element.seq,
                  stamp |-> s1.clock,
                  ast |-> getRecord(s1.recordList, element.uri).analyzerScope.ast,
                  knownUris |-> recordKeys(s1.recordList),
                  directBefore |-> s.direct,
                  indirectBefore |-> s.indirect,
                  lazyIndirectBefore |-> s.lazyIndirect,
                  pushedIndirect |-> uriList(SubSeq(s2.indirect, Len(s1.indirect) + 1, Len(s2.indirect))),
                  pushedLazyIndirect |-> uriList(SubSeq(s2.lazyIndirect, Len(s1.lazyIndirect) + 1, Len(s2.lazyIndirect))),
                  retokenized |-> retokenized(s.recordList, s2.recordList)]
    IN [s2 EXCEPT !.popLog = Append(@, entry)]

propagate(s, popped, s1) ==
    logPopped(s, popped, s1,
              IF popped.element.shouldReanalyze
              THEN reanalyzeFilesWithDependency(s1, popped.element.uri)
              ELSE s1)

\* analyzes the popped element and, when asked to, enqueues its dependents
analyzePopped(s, popped) ==
    IF popped.tier = "none" THEN s
    ELSE propagate(s, popped, analyzeFile(popped.s, popped.element.uri))

\* a scheduler that takes the newest element of the direct tier
popNewest(s) ==
    IF Len(s.direct) > 1
    THEN analyzePopped(s, [s |-> [s EXCEPT !.direct = SubSeq(@, 1, Len(@) - 1)],
                           element |-> Last(s.direct), tier |-> "direct"])
    ELSE analyzePopped(s, frontPop(s))

popAndAnalyze(s) == analyzePopped(s, frontPop(s))

RECURSIVE drainDirect(_)
drainDirect(s) == IF hasDirect(s) THEN drainDirect(popAndAnalyze(s)) ELSE s

RECURSIVE drainReanalysis(_)
drainReanalysis(s) ==
    IF hasIndirect(s) /\ hasLazyIndirect(s) THEN drainReanalysis(popAndAnalyze(s)) ELSE s

promoteAndAnalyze(s, uri) ==
    IF ~hasRecord(s.recordList, uri) THEN s
    ELSE popAndAnalyze(frontPushDirect(s, uri, FALSE))

\* a flush that only drains the direct tier
flushWithoutPromotion(s, uri) ==
    IF uri = None THEN drainReanalysis(drainDirect(s)) ELSE drainDirect(s)

\* what flush does once the direct tier is drained
flushDrained(drained, uri) ==
    IF uri = None THEN drainReanalysis(drained)
    ELSE IF isInQueue(drained, uri) THEN promoteAndAnalyze(drained, uri)
    ELSE drained

flush(s, uri) == flushDrained(drainDirect(s), uri)

handleAnalyze(s) == rescheduleAnalyze(popAndAnalyze(s))

-----------------------------------------------------------------------------
(* Specification of the resolver *)

commit(s) ==
    /\ recordList' = s.recordList
    /\ directQueue' = s.direct
    /\ indirectQueue' = s.indirect
    /\ lazyIndirectQueue' = s.lazyIndirect
    /\ analyzerTask' = s.analyzerTask
    /\ resolvedPredefinedFilepaths' = s.resolved
    /\ diagnostic' = s.diagnostic
    /\ clock' = s.clock
    /\ enqueued' = s.enqueued
    /\ published' = s.published
    /\ popLog' = s.popLog
    /\ UNCHANGED <<hoistVars, serviceVars>>

Init ==
    /\ HoistIdle
    /\ tokens = <<>>
    /\ world \in Worlds
    /\ recordList = <<>>
    /\ directQueue = <<>>
    /\ indirectQueue = <<>>
    /\ lazyIndirectQueue = <<>>
    /\ analyzerTask = <<>>
    /\ resolvedPredefinedFilepaths = {}
    /\ diagnostic = <<>>
    /\ clock = 0
    /\ enqueued = 0
    /\ edits = 0
    /\ lastOp = [op |-> "init", uri |-> None, pending |-> FALSE, promoted |-> FALSE]
    /\ published = <<>>
    /\ popLog = <<>>

\* the user opens or edits a document: it is inspected and its analysis requested
Edit(uri) ==
    /\ edits < MaxEdits
    /\ readFileContent(uri)
    /\ commit(inspectFile(resolverState, uri))
    /\ edits' = edits + 1
    /\ lastOp' = [op |-> "request", uri |-> uri, pending |-> FALSE, promoted |-> FALSE]
    /\ UNCHANGED world

\* a timeout of the delayed task fires
HandleAnalyze ==
    /\ \E i \in 1..Len(analyzerTask) : commit(handleAnalyze(expire(resolverState, i)))
    /\ lastOp' = [op |-> "handleAnalyze", uri |-> None, pending |-> FALSE, promoted |-> FALSE]
    /\ UNCHANGED <<world, edits>>

\* a language-server request on an open document
Flush(uri) ==
    /\ uri \in world.open
    /\ hasRecord(recordList, uri)
    /\ commit(flush(resolverState, uri))
    /\ lastOp' = [op |-> "flush", uri |-> uri,
                  pending |-> isInQueue(resolverState, uri),
                  promoted |-> isInQueue(drainDirect(resolverState), uri)]
    /\ UNCHANGED <<world, edits>>

FlushAll ==
    /\ recordList # <<>>
    /\ commit(flush(resolverState, None))
    /\ lastOp' = [op |-> "flush", uri |-> None, pending |-> FALSE, promoted |-> FALSE]
    /\ UNCHANGED <<world, edits>>

Next ==
    \/ \E uri \in SourceFiles : Edit(uri)
    \/ HandleAnalyze
    \/ \E uri \in SourceFiles : Flush(uri)
    \/ FlushAll

vars == <<resolverVars, hoistVars, serviceVars>>

Spec == Init /\ [][Next]_vars

\* a step of HandleAnalyze, the only action that leaves this mark
TimerFired == lastOp'.op = "handleAnalyze"

\* the resolver with a timer that fires: a timeout that stays pending fires.
\* HandleAnalyze is enabled exactly when a timeout is pending, so this is its
\* weak fairness, written without ENABLED
SpecFair == Spec /\ ([]<>(analyzerTask = <<>>) \/ []<><<TimerFired>>_vars)

-----------------------------------------------------------------------------
(* Properties of the resolver *)

Range(q) == {q[i] : i \in 1..Len(q)}

quiescent == directQueue = <<>> /\ indirectQueue = <<>> /\ lazyIndirectQueue = <<>>

tierBefore(entry) ==
    IF entry.tier = "direct" THEN entry.directBefore
    ELSE IF entry.tier = "indirect" THEN entry.indirectBefore
    ELSE entry.lazyIndirectBefore

\* the as.predefined of a file, without the inspections its discovery makes
predefinedOf(uri) == findPredefinedUri(resolverState, uri).uri

\* C2: every analysis takes the head of the highest-priority non-empty tier:
\* an indirect element is analyzed only with the direct tier empty, a
\* lazy-indirect element only with the direct and the indirect tier empty,
\* and the element taken is the one of its tier that was enqueued first.
C2_TierPriorityFifo ==
    \A i \in 1..Len(popLog) :
        LET entry == popLog[i] IN
        /\ entry.tier = "indirect" => entry.directBefore = <<>>
        /\ entry.tier = "lazyIndirect" => entry.directBefore = <<>> /\ entry.indirectBefore = <<>>
        /\ \A j \in 1..Len(tierBefore(entry)) : entry.seq <= tierBefore(entry)[j].seq

C2_Witness ==
    \E i \in 1..Len(popLog) :
        /\ popLog[i].tier = "direct"
        /\ Len(popLog[i].directBefore) >= 2
        /\ popLog[i].indirectBefore # <<>>
        /\ popLog[i].lazyIndirectBefore # <<>>

\* C3: when the three tiers are empty, no record's analyzer scope is older
\* than the analyzer scope of a record it includes (stated for the include
\* chain a.as -> b.as -> c.as without as.predefined).
C3_DependencyClosure ==
    (quiescent /\ world.includes[UriA] = ChainGraph[UriA] /\ world.includes[UriB] = ChainGraph[UriB]
               /\ UriPredefined \notin world.disk) =>
        \A i, j \in 1..Len(recordList) :
            includesUri(recordKeys(recordList), recordList[i], recordList[j].uri, predefinedOf(recordList[i].uri))
                => recordList[i].analyzerScope.stamp >= recordList[j].analyzerScope.stamp

C5_DependentsEnqueued ==
    \A i \in 1..Len(popLog) :
        LET entry == popLog[i]
            depended == {uri \in Range(entry.knownUris) :
                            includesUri(entry.knownUris, getRecord(recordList, uri), entry.uri, predefinedOf(uri))}
        IN /\ (entry.tier = "direct" /\ entry.shouldReanalyze) =>
                /\ Range(entry.pushedIndirect) = {uri \in depended : getRecord(recordList, uri).isOpen}
                /\ Range(entry.pushedLazyIndirect) = {uri \in depended : ~getRecord(recordList, uri).isOpen}
                /\ Len(entry.pushedIndirect) + Len(entry.pushedLazyIndirect) = Cardinality(depended)
           /\ entry.tier \in {"indirect", "lazyIndirect"} => entry.retokenized = {}

C5_Witness ==
    \E i \in 1..Len(popLog) :
        /\ popLog[i].tier = "direct"
        /\ popLog[i].shouldReanalyze
        /\ popLog[i].pushedIndirect # <<>>
        /\ popLog[i].pushedLazyIndirect # <<>>
        /\ Len(popLog[i].knownUris) > Len(popLog[i].pushedIndirect) + Len(popLog[i].pushedLazyIndirect)

\* C6: every analysis calls the diagnostics callback once, with the URI of
\* the analyzed record and with its parser diagnostics followed by the
\* analyzer diagnostics of that pass and of no other pass or file.
C6_PublishedOnce ==
    /\ Len(published) = Len(popLog)
    /\ \A i \in 1..Len(popLog) :
          /\ published[i].uri = popLog[i].uri
          /\ published[i].diagnostics =
                <<parserDiagnostic(popLog[i].uri, popLog[i].ast),
                  analyzerDiagnosticOf(popLog[i].uri, popLog[i].stamp)>>

C6_Witness ==
    /\ Len(published) >= 2
    /\ \E i \in 1..Len(popLog) : popLog[i].ast >= 2 /\ popLog[i].stamp > popLog[i].ast

\* C7: an include path that resolves to no record and to no readable file is
\* reported with 'File not found' at its token among the diagnostics stored
\* in the including record and published for it.
C7_MissingIncludeReported ==
    \A i \in 1..Len(popLog) :
        LET record == getRecord(recordList, popLog[i].uri)
            includeTokens == record.includePathTokens
        IN \A k \in 1..Len(includeTokens) :
              (/\ ~hasRecord(recordList, resolveUri(record.uri, includeTokens[k]))
               /\ ~readFileContent(resolveUri(record.uri, includeTokens[k]))
               /\ ~world.implicitMutualInclusion) =>
                  /\ fileNotFound(record.uri, k) \in Range(published[i].diagnostics)
                  /\ fileNotFound(record.uri, k)
                        \in Range(record.diagnosticsInParser \o record.diagnosticsInAnalyzer)

-----------------------------------------------------------------------------
(* The hoist phase.                                                        *)
(*                                                                         *)
(* A node of the AST is a record named by its nodeName; the place of a     *)
(* node in the script (the indices that lead to it) stands for the node    *)
(* object, <<>> for no node.  A scope is known by its scope path, the      *)
(* identifiers from the global scope <<>> down to it.  Symbols are         *)
(* objects: the symbol tables hold indices into globalScope.symbols, so    *)
(* that a symbol copied from a base class stays the one object.            *)

NoNode == <<>>

\* an optional scope path or base list: <<>> when undefined, <<value>> otherwise
undefined == <<>>
defined(value) == <<value>>

Param(type, identifier) == [type |-> type, identifier |-> identifier]

\* head: the return type, "" for a constructor, "~" for a destructor
NodeFunc(head, identifier, accessor, isProperty, paramList) ==
    [nodeName |-> "Func", head |-> head, identifier |-> identifier, accessor |-> accessor,
     isProperty |-> isProperty, paramList |-> paramList, typeTemplates |-> <<>>]

NodeVar(type, variables, accessor) ==
    [nodeName |-> "Var", type |-> type, variables |-> variables, accessor |-> accessor]

\* getter, setter: "none", "declared" (';') or "block" (a statement block)
NodeVirtualProp(type, identifier, accessor, getter, setter) ==
    [nodeName |-> "VirtualProp", type |-> type, identifier |-> identifier, accessor |-> accessor,
     getter |-> getter, setter |-> setter]

NodeFuncDef(returnType, identifier, paramList) ==
    [nodeName |-> "FuncDef", returnType |-> returnType, identifier |-> identifier, paramList |-> paramList]

NodeIntfMethod(returnType, identifier, paramList) ==
    [nodeName |-> "IntfMethod", returnType |-> returnType, identifier |-> identifier,
     paramList |-> paramList]

NodeClass(identifier, typeTemplates, baseList, memberList) ==
    [nodeName |-> "Class", identifier |-> identifier, typeTemplates |-> typeTemplates,
     baseList |-> baseList, memberList |-> memberList]

NodeInterface(identifier, baseList, memberList) ==
    [nodeName |-> "Interface", identifier |-> identifier, baseList |-> baseList, memberList |-> memberList]

NodeEnum(identifier, memberList) ==
    [nodeName |-> "Enum", identifier |-> identifier, enumMemberList |-> memberList]

NodeTypeDef(type, identifier) == [nodeName |-> "TypeDef", type |-> type, identifier |-> identifier]

NodeNamespace(namespaceList, statements) ==
    [nodeName |-> "Namespace", namespaceList |-> namespaceList, script |-> statements]

NodeMixin(mixinClass) == [nodeName |-> "Mixin", mixinClass |-> mixinClass]

\* the nodes a node holds
childNodes(node) ==
    IF node.nodeName = "Namespace" THEN node.script
    ELSE IF node.nodeName = "Mixin" THEN <<node.mixinClass>>
    ELSE IF node.nodeName \in {"Class", "Interface"} THEN node.memberList
    ELSE <<>>

RECURSIVE nodeIn(_, _)
nodeIn(nodes, place) ==
    IF Len(place) = 1 THEN nodes[Head(place)]
    ELSE nodeIn(childNodes(nodes[Head(place)]), Tail(place))

nodeAt(place) == nodeIn(script, place)

PrimitiveTypes == {"void", "int", "bool", "float"}

\* ResolvedType: the type symbol (0 for a builtin type) and its name
ResolvedType(symbol, name) == [typeOrFunc |-> symbol, name |-> name]
undefinedType == [typeOrFunc |-> 0, name |-> ""]

SymbolType(identifier, scopePath, linkedNode, isTypeParameter) ==
    [kind |-> "type", identifier |-> identifier, scopePath |-> scopePath, linkedNode |-> linkedNode,
     membersScopePath |-> undefined, baseList |-> undefined, templateTypes |-> <<>>,
     isTypeParameter |-> isTypeParameter,
     type |-> undefinedType, parameterTypes |-> <<>>, functionScopePath |-> undefined,
     isInstanceMember |-> FALSE, accessRestriction |-> "undefined"]

SymbolVariable(identifier, scopePath, type, isInstanceMember, accessRestriction) ==
    [kind |-> "variable", identifier |-> identifier, scopePath |-> scopePath, linkedNode |-> NoNode,
     membersScopePath |-> undefined, baseList |-> undefined, templateTypes |-> <<>>,
     isTypeParameter |-> FALSE,
     type |-> type, parameterTypes |-> <<>>, functionScopePath |-> undefined,
     isInstanceMember |-> isInstanceMember, accessRestriction |-> accessRestriction]

\* type is the return type of the function
SymbolFunction(identifier, scopePath, linkedNode, functionScopePath, isInstanceMember, accessRestriction) ==
    [kind |-> "function", identifier |-> identifier, scopePath |-> scopePath, linkedNode |-> linkedNode,
     membersScopePath |-> undefined, baseList |-> undefined, templateTypes |-> <<>>,
     isTypeParameter |-> FALSE,
     type |-> undefinedType, parameterTypes |-> <<>>, functionScopePath |-> functionScopePath,
     isInstanceMember |-> isInstanceMember, accessRestriction |-> accessRestriction]

createSymbolScope(ownerNode) == [linkedNode |-> ownerNode, symbolTable |-> <<>>, namespaceList |-> <<>>]

createGlobalScope == [scopes |-> (<<>> :> createSymbolScope(NoNode)), symbols |-> <<>>]

\* the state a pass works on
hoistState ==
    [scopes |-> globalScope.scopes, symbols |-> globalScope.symbols,
     hoistQueue |-> <<>>, analyzeQueue |-> analyzeQueue, diagnostics |-> analyzerDiagnostic,
     unique |-> s_uniqueIdentifier, executed |-> executed]

addError(h, place, message, identifier) ==
    [h EXCEPT !.diagnostics = Append(@, [message |-> message, identifier |-> identifier, place |-> place])]

\* an identifier that is issued again and again
createAnonymousIdentifierAgain(h) == [h |-> h, identifier |-> "~" \o ToString(h.unique + 1)]

\* the identifier is the number of the call, a counter that no pass resets
createAnonymousIdentifier(h) ==
    [h |-> [h EXCEPT !.unique = @ + 1], identifier |-> "~" \o ToString(h.unique + 1)]

isAnonymousIdentifier(identifier) == Len(identifier) > 0 /\ SubSeq(identifier, 1, 1) = "~"

\* an insertion that links the given node to the scope it finds, whatever node that has
insertScopeOverwriting(h, parent, identifier, linkedNode) ==
    LET path == Append(parent, identifier) IN
    IF path \notin DOMAIN h.scopes
    THEN [h EXCEPT !.scopes = (path :> createSymbolScope(linkedNode)) @@ @]
    ELSE IF linkedNode = NoNode THEN h
    ELSE [h EXCEPT !.scopes[path].linkedNode = linkedNode]

\* the scope of parent under the identifier, made when there is none
insertScope(h, parent, identifier, linkedNode) ==
    LET path == Append(parent, identifier) IN
    IF path \notin DOMAIN h.scopes
    THEN [h EXCEPT !.scopes = (path :> createSymbolScope(linkedNode)) @@ @]
    ELSE IF linkedNode = NoNode THEN h
    ELSE IF h.scopes[path].linkedNode = NoNode THEN [h EXCEPT !.scopes[path].linkedNode = linkedNode]
    ELSE h

insertScopeAndCheck(h, parent, identifier, linkedNode) ==
    LET found == insertScope(h, parent, identifier, linkedNode)
        path == Append(parent, identifier)
    IN IF linkedNode # NoNode /\ linkedNode # found.scopes[path].linkedNode
       THEN addError(found, linkedNode, "Symbol is already defined", identifier)
       ELSE found

tryResolveActiveScope(h, path) == path \in DOMAIN h.scopes

\* the place of the holder of the identifier in a symbol table, 0 when it has none
RECURSIVE holderIndex(_, _, _)
holderIndex(symbolTable, identifier, i) ==
    IF i > Len(symbolTable) THEN 0
    ELSE IF symbolTable[i].key = identifier THEN i
    ELSE holderIndex(symbolTable, identifier, i + 1)

lookupSymbol(h, scopePath, identifier) ==
    LET table == h.scopes[scopePath].symbolTable
        i == holderIndex(table, identifier, 1)
    IN IF i = 0 THEN <<>> ELSE table[i].symbols

isFunctionHolder(h, holder) == holder # <<>> /\ h.symbols[holder[1]].kind = "function"

createSymbol(h, symbol) ==
    [h |-> [h EXCEPT !.symbols = Append(@, symbol)], symbol |-> Len(h.symbols) + 1]

\* alreadyExists is the holder in the way, <<>> when the symbol went in
insertSymbol(h, scopePath, symbol) ==
    LET table == h.scopes[scopePath].symbolTable
        key == h.symbols[symbol].identifier
        i == holderIndex(table, key, 1)
    IN IF i = 0
       THEN [h |-> [h EXCEPT !.scopes[scopePath].symbolTable =
                                  Append(@, [key |-> key, symbols |-> <<symbol>>])],
             alreadyExists |-> <<>>]
       ELSE IF isFunctionHolder(h, table[i].symbols) /\ h.symbols[symbol].kind = "function"
       THEN [h |-> [h EXCEPT !.scopes[scopePath].symbolTable[i].symbols = Append(@, symbol)],
             alreadyExists |-> <<>>]
       ELSE [h |-> h, alreadyExists |-> table[i].symbols]

insertSymbolAndCheck(h, scopePath, symbol) ==
    LET inserted == insertSymbol(h, scopePath, symbol) IN
    IF inserted.alreadyExists = <<>> THEN [h |-> inserted.h, ok |-> TRUE]
    ELSE [h |-> addError(inserted.h, h.symbols[symbol].linkedNode, "Symbol is already declared",
                      h.symbols[symbol].identifier),
          ok |-> FALSE]

\* the holder of the identifier in the scope or in the nearest scope around it
RECURSIVE findSymbolWithParent(_, _, _)
findSymbolWithParent(h, scopePath, identifier) ==
    LET holder == lookupSymbol(h, scopePath, identifier) IN
    IF holder # <<>> THEN holder
    ELSE IF scopePath = <<>> THEN <<>>
    ELSE findSymbolWithParent(h, SubSeq(scopePath, 1, Len(scopePath) - 1), identifier)

\* the resolved type of a type node, undefinedType with a diagnostic when it names no type
analyzeType(h, scopePath, typeName, place) ==
    LET holder == findSymbolWithParent(h, scopePath, typeName) IN
    IF typeName \in PrimitiveTypes THEN [h |-> h, type |-> ResolvedType(0, typeName)]
    ELSE IF holder # <<>> /\ h.symbols[holder[1]].kind = "type"
    THEN [h |-> h, type |-> ResolvedType(holder[1], typeName)]
    ELSE [h |-> addError(h, place, "is not defined", typeName), type |-> undefinedType]

\* TRUE. It makes TLC evaluate the state that one step of a loop has produced
\* before it evaluates the next step.
evaluated(h) == h.unique = h.unique

\* the queue that a queue parameter of the hoist functions stands for
push(h, queue, task) ==
    IF queue = "hoistQueue" THEN [h EXCEPT !.hoistQueue = Append(@, task)]
    ELSE [h EXCEPT !.analyzeQueue = Append(@, task)]

\* a deferred function: what it calls and the values it has captured
Task(task, scope, place, symbol, hoistQueue) ==
    [task |-> task, scope |-> scope, place |-> place, symbol |-> symbol, hoistQueue |-> hoistQueue]

HoistTasks == {"hoistClassMembers", "copyBaseMembers", "hoistInterfaceMembers", "hoistParamList",
               "assignReturnType", "assignParameterTypes"}
AnalyzeTasks == {"analyzeFunc", "analyzeVarInitializer", "analyzeStatBlock"}

startsWith4(text, prefix) == Len(text) >= 4 /\ SubSeq(text, 1, 4) = prefix
substring4(text) == SubSeq(text, 5, Len(text))

RECURSIVE hoistEnumMembers(_, _, _, _)
hoistEnumMembers(h, parentScope, memberList, type) ==
    IF memberList = <<>> THEN h
    ELSE LET created == createSymbol(h, SymbolVariable(Head(memberList), parentScope, type, FALSE, "undefined"))
             next(inserted) == IF evaluated(inserted)
                               THEN hoistEnumMembers(inserted, parentScope, Tail(memberList), type)
                               ELSE h
         IN next(insertSymbolAndCheck(created.h, parentScope, created.symbol).h)

hoistEnum(h, parentScope, nodeEnum, place) ==
    LET created == createSymbol(h, SymbolType(nodeEnum.identifier, parentScope, place, FALSE))
        scope == Append(parentScope, nodeEnum.identifier)
        hoistMembers(scoped) ==
            hoistEnumMembers([scoped EXCEPT !.symbols[created.symbol].membersScopePath = defined(scope)],
                             scope, nodeEnum.enumMemberList,
                             ResolvedType(created.symbol, nodeEnum.identifier))
        declare(inserted) ==
            IF ~inserted.ok THEN inserted.h
            ELSE hoistMembers(insertScopeAndCheck(inserted.h, parentScope, nodeEnum.identifier, place))
    IN declare(insertSymbolAndCheck(created.h, parentScope, created.symbol))

RECURSIVE hoistClassTemplateTypes(_, _, _)
hoistClassTemplateTypes(h, scope, types) ==
    IF types = <<>> THEN h
    ELSE LET created == createSymbol(h, SymbolType(Head(types), scope, NoNode, TRUE))
             next(inserted) == IF evaluated(inserted)
                               THEN hoistClassTemplateTypes(inserted, scope, Tail(types))
                               ELSE h
         IN next(insertSymbolAndCheck(created.h, scope, created.symbol).h)

\* baseList is undefined for a node without bases, the list of resolved types otherwise
RECURSIVE hoistBases(_, _, _, _, _)
hoistBases(h, scope, bases, place, baseList) ==
    IF bases = <<>> THEN [h |-> h, baseList |-> defined(baseList)]
    ELSE LET baseIdentifier == Head(bases)
             baseType == findSymbolWithParent(h, scope, baseIdentifier)
         IN IF baseType = <<>>
            THEN hoistBases(addError(h, place, "is not defined type", baseIdentifier), scope, Tail(bases),
                            place, Append(baseList, undefinedType))
            ELSE IF h.symbols[baseType[1]].kind # "type"
            THEN hoistBases(addError(h, place, "is not class or interface", baseIdentifier), scope,
                            Tail(bases), place, Append(baseList, undefinedType))
            ELSE hoistBases(h, scope, Tail(bases), place,
                            Append(baseList, ResolvedType(baseType[1], baseIdentifier)))

hoistBaseList(h, scope, nodeClass, place) ==
    IF nodeClass.baseList = <<>> THEN [h |-> h, baseList |-> undefined]
    ELSE hoistBases(h, scope, nodeClass.baseList, place, <<>>)

\* a copy that takes the private members of the base as well
RECURSIVE copyAllSymbols(_, _, _, _)
copyAllSymbols(h, scope, key, symbols) ==
    IF symbols = <<>> THEN h
    ELSE LET symbol == Head(symbols)
             inserted == insertSymbol(h, scope, symbol)
         IN IF inserted.alreadyExists # <<>>
            THEN copyAllSymbols(addError(inserted.h, h.symbols[inserted.alreadyExists[1]].linkedNode,
                                         "Duplicated symbol", key),
                                scope, key, Tail(symbols))
            ELSE copyAllSymbols(inserted.h, scope, key, Tail(symbols))

\* the symbols of one holder of the base scope
RECURSIVE copySymbols(_, _, _, _)
copySymbols(h, scope, key, symbols) ==
    IF symbols = <<>> THEN h
    ELSE LET symbol == Head(symbols)
             inserted == insertSymbol(h, scope, symbol)
         IN IF /\ h.symbols[symbol].kind \in {"function", "variable"}
               /\ h.symbols[symbol].accessRestriction = "private"
            THEN copySymbols(h, scope, key, Tail(symbols))
            ELSE IF inserted.alreadyExists # <<>>
            THEN copySymbols(addError(inserted.h, h.symbols[inserted.alreadyExists[1]].linkedNode,
                                      "Duplicated symbol", key),
                             scope, key, Tail(symbols))
            ELSE copySymbols(inserted.h, scope, key, Tail(symbols))

\* the holders of the base scope, as they were when the copy of this base began
RECURSIVE copyHolders(_, _, _)
copyHolders(h, scope, symbolTable) ==
    IF symbolTable = <<>> THEN h
    ELSE IF Head(symbolTable).key = "this" THEN copyHolders(h, scope, Tail(symbolTable))
    ELSE LET next(copied) == IF evaluated(copied) THEN copyHolders(copied, scope, Tail(symbolTable)) ELSE h
         IN next(copySymbols(h, scope, Head(symbolTable).key, Head(symbolTable).symbols))

RECURSIVE copyBaseMembers(_, _, _)
copyBaseMembers(h, scope, baseList) ==
    IF baseList = <<>> THEN h
    ELSE LET baseType == Head(baseList)
             membersScopePath == h.symbols[baseType.typeOrFunc].membersScopePath
             next(copied) == IF evaluated(copied) THEN copyBaseMembers(copied, scope, Tail(baseList)) ELSE h
         IN IF baseType = undefinedType THEN copyBaseMembers(h, scope, Tail(baseList))
            ELSE IF membersScopePath = undefined \/ ~tryResolveActiveScope(h, membersScopePath[1])
            THEN copyBaseMembers(h, scope, Tail(baseList))
            ELSE next(copyHolders(h, scope, h.scopes[membersScopePath[1]].symbolTable))

\* the holder of the constructors of a type: the functions of its members scope named as the type
findConstructorOfType(h, resolvedType) ==
    IF resolvedType = undefinedType \/ resolvedType.typeOrFunc = 0 THEN <<>>
    ELSE LET type == h.symbols[resolvedType.typeOrFunc] IN
         IF type.membersScopePath = undefined \/ ~tryResolveActiveScope(h, type.membersScopePath[1])
         THEN <<>>
         ELSE lookupSymbol(h, type.membersScopePath[1], type.identifier)

RECURSIVE insertSuperConstructors(_, _, _)
insertSuperConstructors(h, scope, baseConstructors) ==
    IF baseConstructors = <<>> THEN h
    ELSE LET baseConstructor == h.symbols[Head(baseConstructors)]
             superConstructor == createSymbol(h, [baseConstructor EXCEPT !.identifier = "super",
                                                                         !.accessRestriction = "private"])
             next(inserted) == IF evaluated(inserted)
                               THEN insertSuperConstructors(inserted, scope, Tail(baseConstructors))
                               ELSE h
         IN next(insertSymbol(superConstructor.h, scope, superConstructor.symbol).h)

RECURSIVE hoistParams(_, _, _, _, _)
hoistParams(h, scope, paramList, place, resolvedTypes) ==
    IF paramList = <<>> THEN [h |-> h, resolvedTypes |-> resolvedTypes]
    ELSE LET param == Head(paramList)
             next(inserted, type) ==
                 IF evaluated(inserted)
                 THEN hoistParams(inserted, scope, Tail(paramList), place, Append(resolvedTypes, type))
                 ELSE [h |-> h, resolvedTypes |-> resolvedTypes]
             declare(analyzed) ==
                 LET created == createSymbol(analyzed.h,
                                             SymbolVariable(param.identifier, scope, analyzed.type, FALSE,
                                                            "undefined"))
                 IN next(IF param.identifier = "" THEN analyzed.h
                         ELSE insertSymbolAndCheck(created.h, scope, created.symbol).h,
                         analyzed.type)
         IN declare(analyzeType(h, scope, param.type, place))

hoistParamList(h, scope, paramList, place) == hoistParams(h, scope, paramList, place, <<>>)

\* a property variable for every function named get_X or set_X, whatever the setting
hoistPropertyAccessorOfAny(h, parentScope, nodeFunc, place, returnType, isInstanceMember) ==
    IF startsWith4(nodeFunc.identifier, "get_") \/ startsWith4(nodeFunc.identifier, "set_")
    THEN LET created == createSymbol(h, SymbolVariable(substring4(nodeFunc.identifier), parentScope,
                                                       returnType, isInstanceMember, nodeFunc.accessor))
         IN insertSymbol(created.h, parentScope, created.symbol).h
    ELSE IF nodeFunc.isProperty
    THEN addError(h, place, "Property accessor must start with get_ or set_", nodeFunc.identifier)
    ELSE h

\* the property variable of a function named get_X or set_X
hoistPropertyAccessor(h, parentScope, nodeFunc, place, returnType, isInstanceMember) ==
    IF startsWith4(nodeFunc.identifier, "get_") \/ startsWith4(nodeFunc.identifier, "set_")
    THEN IF nodeFunc.isProperty \/ ~explicitPropertyAccessor
         THEN LET created == createSymbol(h, SymbolVariable(substring4(nodeFunc.identifier), parentScope,
                                                            returnType, isInstanceMember, nodeFunc.accessor))
              IN insertSymbol(created.h, parentScope, created.symbol).h
         ELSE h
    ELSE IF nodeFunc.isProperty
    THEN addError(h, place, "Property accessor must start with get_ or set_", nodeFunc.identifier)
    ELSE h

hoistFunc(h, parentScope, nodeFunc, place, hoistQueue, isInstanceMember) ==
    LET funcionHolderScope == Append(parentScope, nodeFunc.identifier)
        anonymous == createAnonymousIdentifier(insertScope(h, parentScope, nodeFunc.identifier, NoNode))
        functionScope == Append(funcionHolderScope, anonymous.identifier)
        created == createSymbol(insertScope(anonymous.h, funcionHolderScope, anonymous.identifier, place),
                                SymbolFunction(nodeFunc.identifier, parentScope, place,
                                               defined(functionScope), isInstanceMember, nodeFunc.accessor))
        symbol == created.symbol
        queue(property) ==
            push(push(property, hoistQueue, Task("hoistParamList", functionScope, place, symbol, hoistQueue)),
                 "analyzeQueue", Task("analyzeFunc", functionScope, place, symbol, hoistQueue))
        declareProperty(inserted, type) ==
            IF ~inserted.ok THEN inserted.h
            ELSE queue(hoistPropertyAccessor(inserted.h, parentScope, nodeFunc, place, type,
                                             isInstanceMember))
        declare(returnType) ==
            declareProperty(insertSymbolAndCheck([returnType.h EXCEPT !.symbols[symbol].type = returnType.type],
                                                 parentScope, symbol),
                            returnType.type)
        analyzeReturnType(templated) ==
            declare(IF nodeFunc.head # ""
                    THEN analyzeType(templated, functionScope, nodeFunc.head, place)
                    ELSE [h |-> templated, type |-> undefinedType])
    IN IF nodeFunc.head = "~" THEN h
       ELSE analyzeReturnType([hoistClassTemplateTypes(created.h, functionScope, nodeFunc.typeTemplates)
                                  EXCEPT !.symbols[symbol].templateTypes = nodeFunc.typeTemplates])

\* a variable symbol for each variable of the declaration
RECURSIVE insertVariables(_, _, _, _, _, _)
insertVariables(h, scope, varType, variables, accessor, isInstanceMember) ==
    IF variables = <<>> THEN h
    ELSE LET created == createSymbol(h, SymbolVariable(Head(variables), scope, varType, isInstanceMember,
                                                       accessor))
             next(inserted) ==
                 IF evaluated(inserted)
                 THEN insertVariables(inserted, scope, varType, Tail(variables), accessor, isInstanceMember)
                 ELSE h
         IN next(insertSymbolAndCheck(created.h, scope, created.symbol).h)

hoistVar(h, scope, nodeVar, place, isInstanceMember) ==
    LET declare(varType) ==
            insertVariables(push(varType.h, "analyzeQueue",
                                 Task("analyzeVarInitializer", scope, place, 0, "hoistQueue")),
                            scope, varType.type, nodeVar.variables, nodeVar.accessor, isInstanceMember)
    IN declare(analyzeType(h, scope, nodeVar.type, place))

hoistFuncDef(h, parentScope, funcDef, place, hoistQueue) ==
    LET created == createSymbol(h, SymbolFunction(funcDef.identifier, parentScope, place, undefined,
                                                  FALSE, "undefined"))
        queue(inserted) ==
            IF ~inserted.ok THEN inserted.h
            ELSE push(push(inserted.h, hoistQueue,
                           Task("assignReturnType", parentScope, place, created.symbol, hoistQueue)),
                      hoistQueue, Task("assignParameterTypes", parentScope, place, created.symbol, hoistQueue))
    IN queue(insertSymbolAndCheck(created.h, parentScope, created.symbol))

\* the types of the parameters of a funcdef
RECURSIVE analyzeParamTypes(_, _, _, _, _)
analyzeParamTypes(h, scope, paramList, place, resolvedTypes) ==
    IF paramList = <<>> THEN [h |-> h, resolvedTypes |-> resolvedTypes]
    ELSE LET next(analyzed) == analyzeParamTypes(analyzed.h, scope, Tail(paramList), place,
                                                 Append(resolvedTypes, analyzed.type))
         IN next(analyzeType(h, scope, Head(paramList).type, place))

hoistVirtualProp(h, parentScope, virtualProp, place, isInstanceMember) ==
    LET identifier == virtualProp.identifier
        getterScope == Append(parentScope, "get_" \o identifier)
        setterScope == Append(parentScope, "set_" \o identifier)
        hoistSetter(getter, type) ==
            LET setterScoped == insertScope(getter, parentScope, "set_" \o identifier, place)
                valueVariable == createSymbol(setterScoped,
                                              SymbolVariable("value", parentScope,
                                                             ResolvedType(type.typeOrFunc, type.name),
                                                             FALSE, virtualProp.accessor))
                valued == IF type # undefinedType
                          THEN insertSymbolAndCheck(valueVariable.h, setterScope, valueVariable.symbol).h
                          ELSE setterScoped
            IN IF virtualProp.setter = "block"
               THEN push(valued, "analyzeQueue", Task("analyzeStatBlock", setterScope, place, 0, "hoistQueue"))
               ELSE getter
        hoistGetter(inserted, type) ==
            hoistSetter(IF virtualProp.getter = "block"
                        THEN push(insertScope(inserted, parentScope, "get_" \o identifier, place),
                                  "analyzeQueue",
                                  Task("analyzeStatBlock", getterScope, place, 0, "hoistQueue"))
                        ELSE inserted,
                        type)
        declare(type) ==
            LET created == createSymbol(type.h, SymbolVariable(identifier, parentScope, type.type,
                                                               isInstanceMember, virtualProp.accessor))
            IN hoistGetter(insertSymbolAndCheck(created.h, parentScope, created.symbol).h, type.type)
    IN declare(analyzeType(h, parentScope, virtualProp.type, place))

hoistIntfMethod(h, parentScope, intfMethod, place) ==
    LET declare(returnType) ==
            LET created == createSymbol(returnType.h,
                                        [SymbolFunction(intfMethod.identifier, parentScope, place, undefined,
                                                        TRUE, "undefined") EXCEPT !.type = returnType.type])
            IN insertSymbolAndCheck(created.h, parentScope, created.symbol).h
    IN declare(analyzeType(h, parentScope, intfMethod.returnType, place))

RECURSIVE hoistClassMembers(_, _, _, _, _, _)
hoistClassMembers(h, scope, memberList, place, i, hoistQueue) ==
    IF i > Len(memberList) THEN h
    ELSE LET member == memberList[i]
             at == Append(place, i)
             next(hoisted) ==
                 IF evaluated(hoisted)
                 THEN hoistClassMembers(hoisted, scope, memberList, place, i + 1, hoistQueue)
                 ELSE h
         IN next(IF member.nodeName = "VirtualProp" THEN hoistVirtualProp(h, scope, member, at, TRUE)
                 ELSE IF member.nodeName = "Func" THEN hoistFunc(h, scope, member, at, hoistQueue, TRUE)
                 ELSE IF member.nodeName = "Var" THEN hoistVar(h, scope, member, at, TRUE)
                 ELSE IF member.nodeName = "FuncDef" THEN hoistFuncDef(h, scope, member, at, hoistQueue)
                 ELSE h)

RECURSIVE hoistInterfaceMembers(_, _, _, _, _)
hoistInterfaceMembers(h, scope, memberList, place, i) ==
    IF i > Len(memberList) THEN h
    ELSE LET member == memberList[i]
             at == Append(place, i)
             next(hoisted) ==
                 IF evaluated(hoisted)
                 THEN hoistInterfaceMembers(hoisted, scope, memberList, place, i + 1)
                 ELSE h
         IN next(IF member.nodeName = "VirtualProp" THEN hoistVirtualProp(h, scope, member, at, TRUE)
                 ELSE IF member.nodeName = "IntfMethod" THEN hoistIntfMethod(h, scope, member, at)
                 ELSE h)

hoistClass(h, parentScope, nodeClass, place, hoistQueue) ==
    LET created == createSymbol(h, SymbolType(nodeClass.identifier, parentScope, place, FALSE))
        symbol == created.symbol
        scope == Append(parentScope, nodeClass.identifier)
        queue(based) ==
            push([based.h EXCEPT !.symbols[symbol].baseList = based.baseList],
                 hoistQueue, Task("hoistClassMembers", scope, place, symbol, hoistQueue))
        hoistBase(templated) ==
            queue(hoistBaseList([templated EXCEPT !.symbols[symbol].templateTypes = nodeClass.typeTemplates],
                                scope, nodeClass, place))
        hoistTemplates(assigned) ==
            LET thisVariable == createSymbol(assigned,
                                             SymbolVariable("this", parentScope,
                                                            ResolvedType(symbol, nodeClass.identifier),
                                                            FALSE, "private"))
            IN hoistBase(hoistClassTemplateTypes(
                             insertSymbolAndCheck(thisVariable.h, scope, thisVariable.symbol).h,
                             scope, nodeClass.typeTemplates))
        declare(inserted) ==
            IF ~inserted.ok THEN inserted.h
            ELSE hoistTemplates([insertScopeAndCheck(inserted.h, parentScope, nodeClass.identifier, place)
                                    EXCEPT !.symbols[symbol].membersScopePath = defined(scope)])
    IN declare(insertSymbolAndCheck(created.h, parentScope, symbol))

hoistMixin(h, parentScope, mixin, place, hoistQueue) ==
    hoistClass(h, parentScope, mixin.mixinClass, Append(place, 1), hoistQueue)

hoistInterface(h, parentScope, nodeInterface, place, hoistQueue) ==
    LET created == createSymbol(h, SymbolType(nodeInterface.identifier, parentScope, place, FALSE))
        symbol == created.symbol
        scope == Append(parentScope, nodeInterface.identifier)
        queue(based) ==
            push(IF based.baseList # undefined
                 THEN [based.h EXCEPT !.symbols[symbol].baseList = based.baseList]
                 ELSE based.h,
                 hoistQueue, Task("hoistInterfaceMembers", scope, place, symbol, hoistQueue))
        declare(inserted) ==
            IF ~inserted.ok THEN inserted.h
            ELSE queue(hoistBaseList([insertScopeAndCheck(inserted.h, parentScope, nodeInterface.identifier,
                                                          place)
                                         EXCEPT !.symbols[symbol].membersScopePath = defined(scope)],
                                     scope, nodeInterface, place))
    IN declare(insertSymbolAndCheck(created.h, parentScope, symbol))

\* a typedef that is inserted without the check
hoistTypeDefUnchecked(h, parentScope, typeDef, place) ==
    LET created == createSymbol(h, SymbolType(typeDef.identifier, parentScope, NoNode, FALSE)) IN
    IF typeDef.type \notin PrimitiveTypes THEN h
    ELSE insertSymbol(created.h, parentScope, created.symbol).h

hoistTypeDef(h, parentScope, typeDef, place) ==
    LET created == createSymbol(h, SymbolType(typeDef.identifier, parentScope, NoNode, FALSE)) IN
    IF typeDef.type \notin PrimitiveTypes THEN h
    ELSE insertSymbolAndCheck(created.h, parentScope, created.symbol).h

\* the scope of the innermost identifier of a namespace declaration
RECURSIVE insertNamespaces(_, _, _, _)
insertNamespaces(h, scopeIterator, namespaceList, place) ==
    IF namespaceList = <<>> THEN h
    ELSE LET namespaceToken == Head(namespaceList)
             scope == Append(scopeIterator, namespaceToken)
             next(scoped) ==
                 IF evaluated(scoped)
                 THEN insertNamespaces([scoped EXCEPT !.scopes[scope].namespaceList = Append(@, place)],
                                       scope, Tail(namespaceList), place)
                 ELSE h
         IN next(insertScopeAndCheck(h, scopeIterator, namespaceToken, NoNode))

RECURSIVE hoistStatements(_, _, _, _, _, _)

\* the declarations of the namespace put their deferred hoisting on the analyze queue
hoistNamespace(h, parentScope, nodeNamespace, place) ==
    IF nodeNamespace.namespaceList = <<>> THEN h
    ELSE hoistStatements(insertNamespaces(h, parentScope, nodeNamespace.namespaceList, place),
                         parentScope \o nodeNamespace.namespaceList, nodeNamespace.script, place, 1,
                         "analyzeQueue")

hoistStatements(h, parentScope, ast, place, i, hoistQueue) ==
    IF i > Len(ast) THEN h
    ELSE LET statement == ast[i]
             nodeName == statement.nodeName
             at == Append(place, i)
             next(hoisted) ==
                 IF evaluated(hoisted)
                 THEN hoistStatements(hoisted, parentScope, ast, place, i + 1, hoistQueue)
                 ELSE h
         IN next(IF nodeName = "Enum" THEN hoistEnum(h, parentScope, statement, at)
                 ELSE IF nodeName = "TypeDef" THEN hoistTypeDef(h, parentScope, statement, at)
                 ELSE IF nodeName = "Class" THEN hoistClass(h, parentScope, statement, at, hoistQueue)
                 ELSE IF nodeName = "Mixin" THEN hoistMixin(h, parentScope, statement, at, hoistQueue)
                 ELSE IF nodeName = "Interface" THEN hoistInterface(h, parentScope, statement, at, hoistQueue)
                 ELSE IF nodeName = "FuncDef" THEN hoistFuncDef(h, parentScope, statement, at, hoistQueue)
                 ELSE IF nodeName = "VirtualProp" THEN hoistVirtualProp(h, parentScope, statement, at, FALSE)
                 ELSE IF nodeName = "Var" THEN hoistVar(h, parentScope, statement, at, FALSE)
                 ELSE IF nodeName = "Func" THEN hoistFunc(h, parentScope, statement, at, hoistQueue, FALSE)
                 ELSE IF nodeName = "Namespace" THEN hoistNamespace(h, parentScope, statement, at)
                 ELSE h)

hoistScript(h, parentScope, ast, hoistQueue) == hoistStatements(h, parentScope, ast, <<>>, 1, hoistQueue)

\* the second deferred step of a class
copyBaseMembersAndSuper(h, task) ==
    LET baseList == h.symbols[task.symbol].baseList
        insertSuper(copied) ==
            LET baseConstructorHolder == findConstructorOfType(copied, baseList[1][1])
            IN IF isFunctionHolder(copied, baseConstructorHolder)
               THEN insertSuperConstructors(copied, task.scope, baseConstructorHolder)
               ELSE copied
    IN IF baseList = undefined THEN h
       ELSE insertSuper(copyBaseMembers(h, task.scope, baseList[1]))

\* the body of a deferred function
callTask(h, task) ==
    LET node == nodeAt(task.place)
        baseList == h.symbols[task.symbol].baseList
        assignParameterTypes(hoisted) ==
            [hoisted.h EXCEPT !.symbols[task.symbol].parameterTypes = hoisted.resolvedTypes]
        assignReturnType(analyzed) == [analyzed.h EXCEPT !.symbols[task.symbol].type = analyzed.type]
    IN
    IF task.task = "hoistClassMembers"
    THEN push(hoistClassMembers(h, task.scope, node.memberList, task.place, 1, task.hoistQueue),
              task.hoistQueue, Task("copyBaseMembers", task.scope, task.place, task.symbol, task.hoistQueue))
    ELSE IF task.task = "copyBaseMembers" THEN copyBaseMembersAndSuper(h, task)
    ELSE IF task.task = "hoistInterfaceMembers"
    THEN copyBaseMembers(hoistInterfaceMembers(h, task.scope, node.memberList, task.place, 1),
                         task.scope, IF baseList # undefined THEN baseList[1] ELSE <<>>)
    ELSE IF task.task = "hoistParamList"
    THEN assignParameterTypes(hoistParamList(h, task.scope, node.paramList, task.place))
    ELSE IF task.task = "assignReturnType"
    THEN assignReturnType(analyzeType(h, task.scope, node.returnType, task.place))
    ELSE IF task.task = "assignParameterTypes"
    THEN assignParameterTypes(analyzeParamTypes(h, task.scope, node.paramList, task.place, <<>>))
    ELSE h  \* the analysis of a body: what it adds to the scopes is left out

runTask(h, task, during) ==
    [callTask(h, task) EXCEPT !.executed = Append(@, [task |-> task.task, place |-> task.place,
                                                      during |-> during])]

RECURSIVE drainHoistQueue(_)
drainHoistQueue(h) ==
    IF h.hoistQueue = <<>> THEN h
    ELSE drainHoistQueue(runTask([h EXCEPT !.hoistQueue = Tail(@)], Head(h.hoistQueue), "hoistAfterParsed"))

hoistAfterParsed(h) ==
    drainHoistQueue(hoistScript([h EXCEPT !.analyzeQueue = <<>>, !.hoistQueue = <<>>], <<>>, script,
                                "hoistQueue"))

RECURSIVE drainAnalyzeQueue(_)
drainAnalyzeQueue(h) ==
    IF h.analyzeQueue = <<>> THEN h
    ELSE drainAnalyzeQueue(runTask([h EXCEPT !.analyzeQueue = Tail(@)], Head(h.analyzeQueue),
                                   "analyzeAfterHoisted"))

analyzeAfterHoisted(h) == drainAnalyzeQueue(h)

-----------------------------------------------------------------------------
(* The scripts that are hoisted: up to MaxStatements of these declarations *)

\* class A { A() {} A(int n) {} private int hiddenA; protected int keptA; }
ClassA ==
    NodeClass("A", <<>>, <<>>,
              << NodeFunc("", "A", "undefined", FALSE, <<>>),
                 NodeFunc("", "A", "undefined", FALSE, <<Param("int", "n")>>),
                 NodeVar("int", <<"hiddenA">>, "private"),
                 NodeVar("int", <<"keptA">>, "protected") >>)

\* class B : A { B() {} private int secret; int shared; private void hidden() {}
\*               private int get_p() {} funcdef void Handler(int); }
ClassB ==
    NodeClass("B", <<>>, <<"A">>,
              << NodeFunc("", "B", "undefined", FALSE, <<>>),
                 NodeVar("int", <<"secret">>, "private"),
                 NodeVar("int", <<"shared">>, "undefined"),
                 NodeFunc("void", "hidden", "private", FALSE, <<>>),
                 NodeFunc("int", "get_p", "private", FALSE, <<>>),
                 NodeFuncDef("void", "Handler", <<Param("int", "")>>) >>)

\* class C<T> : B { int own; void set_v(int value) {} int get_v() {} bool ready { get {} set {} } }
ClassC ==
    NodeClass("C", <<"T">>, <<"B">>,
              << NodeVar("int", <<"own">>, "undefined"),
                 NodeFunc("void", "set_v", "undefined", FALSE, <<Param("int", "value")>>),
                 NodeFunc("int", "get_v", "undefined", FALSE, <<>>),
                 NodeVirtualProp("bool", "ready", "undefined", "block", "block") >>)

\* void f(int x) {}
FuncF == NodeFunc("void", "f", "undefined", FALSE, <<Param("int", "x")>>)

\* namespace N { void g() {} class D { int x; void m(int a) {} ~D() {} } enum E { e0, e1 }
\*               typedef float real; mixin class M { int y; } }
NamespaceN ==
    NodeNamespace(<<"N">>,
                  << NodeFunc("void", "g", "undefined", FALSE, <<>>),
                     NodeClass("D", <<>>, <<>>,
                               << NodeVar("int", <<"x">>, "undefined"),
                                  NodeFunc("void", "m", "undefined", FALSE, <<Param("int", "a")>>),
                                  NodeFunc("~", "D", "undefined", FALSE, <<>>) >>),
                     NodeEnum("E", <<"e0", "e1">>),
                     NodeTypeDef("float", "real"),
                     NodeMixin(NodeClass("M", <<>>, <<>>, <<NodeVar("int", <<"y">>, "undefined")>>)) >>)

\* interface I : J { void im(); int vp { get; } }
InterfaceI ==
    NodeInterface("I", <<"J">>,
                  << NodeIntfMethod("void", "im", <<>>),
                     NodeVirtualProp("int", "vp", "undefined", "declared", "none") >>)

\* interface J { int jm(); }
InterfaceJ == NodeInterface("J", <<>>, <<NodeIntfMethod("int", "jm", <<>>)>>)

\* void set_u(int value) property {}
SetterU == NodeFunc("void", "set_u", "undefined", TRUE, <<Param("int", "value")>>)

Declarations == {ClassA, ClassB, ClassC, FuncF, NamespaceN, InterfaceI, InterfaceJ, SetterU}

RECURSIVE scriptsOf(_)
scriptsOf(n) == IF n = 0 THEN {<<>>} ELSE {Append(ast, statement) : ast \in scriptsOf(n - 1), statement \in Declarations}

Scripts == UNION {scriptsOf(n) : n \in 1..MaxStatements}

-----------------------------------------------------------------------------
(* Specification of one file's analysis passes *)

commitPass(h) ==
    /\ globalScope' = [scopes |-> h.scopes, symbols |-> h.symbols]
    /\ analyzeQueue' = h.analyzeQueue
    /\ analyzerDiagnostic' = h.diagnostics
    /\ s_uniqueIdentifier' = h.unique
    /\ executed' = h.executed

InitHoist ==
    /\ world = makeWorld({UriA}, ChainGraph, {UriA}, FALSE)
    /\ recordList = <<>>
    /\ directQueue = <<>>
    /\ indirectQueue = <<>>
    /\ lazyIndirectQueue = <<>>
    /\ analyzerTask = <<>>
    /\ resolvedPredefinedFilepaths = {}
    /\ diagnostic = <<>>
    /\ clock = 0
    /\ enqueued = 0
    /\ edits = 0
    /\ lastOp = [op |-> "init", uri |-> None, pending |-> FALSE, promoted |-> FALSE]
    /\ published = <<>>
    /\ popLog = <<>>
    /\ script \in Scripts
    /\ explicitPropertyAccessor \in BOOLEAN
    /\ hoistEnumParentScope = FALSE
    /\ globalScope = createGlobalScope
    /\ analyzeQueue = <<>>
    /\ analyzerDiagnostic = <<>>
    /\ s_uniqueIdentifier = -1
    /\ hoistPhase = "parsed"
    /\ executed = <<>>
    /\ passes = 1
    /\ previousPass = [scopes |-> createGlobalScope.scopes, symbols |-> <<>>, diagnostics |-> <<>>]
    /\ response = [method |-> "none"]
    /\ tokens = <<>>

\* analyzeFile up to the return of hoistAfterParsed
HoistAfterParsed ==
    /\ hoistPhase = "parsed"
    /\ commitPass(hoistAfterParsed(hoistState))
    /\ hoistPhase' = "hoisted"
    /\ UNCHANGED <<script, explicitPropertyAccessor, hoistEnumParentScope, passes, previousPass>>
    /\ UNCHANGED <<resolverVars, serviceVars>>

\* analyzeFile from there to its end
AnalyzeAfterHoisted ==
    /\ hoistPhase = "hoisted"
    /\ commitPass(analyzeAfterHoisted(hoistState))
    /\ hoistPhase' = "analyzed"
    /\ UNCHANGED <<script, explicitPropertyAccessor, hoistEnumParentScope, passes, previousPass>>
    /\ UNCHANGED <<resolverVars, serviceVars>>

\* the record is analyzed once more: a new global scope, the sink reset
AnalyzeFileAgain ==
    /\ hoistPhase = "analyzed"
    /\ passes < MaxPasses
    /\ previousPass' = [scopes |-> globalScope.scopes, symbols |-> globalScope.symbols,
                        diagnostics |-> analyzerDiagnostic]
    /\ globalScope' = createGlobalScope
    /\ analyzerDiagnostic' = <<>>
    /\ analyzeQueue' = <<>>
    /\ executed' = <<>>
    /\ hoistPhase' = "parsed"
    /\ passes' = passes + 1
    /\ UNCHANGED <<script, explicitPropertyAccessor, hoistEnumParentScope, s_uniqueIdentifier>>
    /\ UNCHANGED <<resolverVars, serviceVars>>

NextHoist ==
    \/ HoistAfterParsed
    \/ AnalyzeAfterHoisted
    \/ AnalyzeFileAgain

SpecHoist == InitHoist /\ [][NextHoist]_vars

-----------------------------------------------------------------------------
(* Properties of the hoist phase *)

hoistReturned == hoistPhase \in {"hoisted", "analyzed"}

symbolOf(symbol) == globalScope.symbols[symbol]

\* the symbols of the symbol table of a scope
symbolsIn(scopePath) ==
    LET table == globalScope.scopes[scopePath].symbolTable
    IN UNION {Range(table[i].symbols) : i \in 1..Len(table)}

\* the type symbols that have a members scope and a base list
DerivedTypes ==
    {c \in 1..Len(globalScope.symbols) :
        /\ symbolOf(c).kind = "type"
        /\ symbolOf(c).membersScopePath # undefined
        /\ symbolOf(c).baseList # undefined}

\* the type symbols of the resolved bases of a derived type that have a members scope
BasesOf(c) ==
    {b \in 1..Len(globalScope.symbols) :
        /\ \E k \in 1..Len(symbolOf(c).baseList[1]) : symbolOf(c).baseList[1][k].typeOrFunc = b
        /\ symbolOf(b).membersScopePath # undefined}

isPrivateMember(symbol) ==
    symbolOf(symbol).kind \in {"variable", "function"} /\ symbolOf(symbol).accessRestriction = "private"

\* C1: every task of the hoist queue has run when hoistAfterParsed returns,
\* none of them is left to the analyze queue, and in a pass no hoist task
\* runs after a task of the analyze queue has run.
C1_HoistDrainsBeforeAnalyze ==
    /\ hoistPhase = "hoisted" =>
          \A i \in 1..Len(analyzeQueue) : analyzeQueue[i].task \in AnalyzeTasks
    /\ \A i, j \in 1..Len(executed) :
          (executed[i].task \in AnalyzeTasks /\ executed[j].task \in HoistTasks) => j < i

\* C8: after hoist, the members scope of a class or interface C with a base B
\* holds no private variable and no private function of the members scope of
\* B, and the `this` of the members scope of C is a variable of type C.
C8_NoPrivateOfBase ==
    hoistReturned =>
        \A c \in DerivedTypes :
            LET scope == symbolOf(c).membersScopePath[1] IN
            /\ \A b \in BasesOf(c) :
                  \A symbol \in symbolsIn(scope) :
                      ~(symbol \in symbolsIn(symbolOf(b).membersScopePath[1]) /\ isPrivateMember(symbol))
            /\ \A i \in 1..Len(globalScope.scopes[scope].symbolTable) :
                  LET holder == globalScope.scopes[scope].symbolTable[i] IN
                  holder.key = "this" =>
                      /\ Len(holder.symbols) = 1
                      /\ symbolOf(holder.symbols[1]).type.typeOrFunc = c

\* a class took over members of a base that has a private variable, a private
\* function, a private property variable and private super constructors
C8_Witness ==
    /\ hoistPhase = "hoisted"
    /\ \E c \in DerivedTypes : \E b \in BasesOf(c) :
          LET ofBase == symbolsIn(symbolOf(b).membersScopePath[1])
              ofDerived == symbolsIn(symbolOf(c).membersScopePath[1])
          IN /\ ofBase \cap ofDerived # {}
             /\ \E v, f, p, s \in ofBase \ ofDerived :
                   /\ isPrivateMember(v) /\ symbolOf(v).identifier = "secret"
                   /\ isPrivateMember(f) /\ symbolOf(f).identifier = "hidden"
                   /\ isPrivateMember(p) /\ symbolOf(p).identifier = "p"
                   /\ isPrivateMember(s) /\ symbolOf(s).identifier = "super"
             /\ lookupSymbol(hoistState, symbolOf(c).membersScopePath[1], "this") # <<>>

\* the functions named get_X or set_X that hoist treats as property accessors
isAccessor(symbol) ==
    /\ symbolOf(symbol).kind = "function"
    /\ symbolOf(symbol).linkedNode # NoNode
    /\ \/ startsWith4(symbolOf(symbol).identifier, "get_")
       \/ startsWith4(symbolOf(symbol).identifier, "set_")
    /\ nodeAt(symbolOf(symbol).linkedNode).nodeName = "Func"
    /\ nodeAt(symbolOf(symbol).linkedNode).isProperty \/ ~explicitPropertyAccessor

\* the type of the property of an accessor: what the getter returns, what the setter takes
propertyTypeOf(symbol) ==
    LET nodeFunc == nodeAt(symbolOf(symbol).linkedNode) IN
    IF startsWith4(nodeFunc.identifier, "get_") THEN nodeFunc.head
    ELSE IF nodeFunc.paramList # <<>> THEN nodeFunc.paramList[1].type
    ELSE ""

\* C9: after hoist, a scope that holds a property accessor get_X or set_X
\* holds a variable X with the access restriction and the instance-member
\* flag of the accessor and with the type of the property.
C9_PropertyParity ==
    hoistReturned =>
        \A scopePath \in DOMAIN globalScope.scopes :
            \A symbol \in symbolsIn(scopePath) :
                isAccessor(symbol) =>
                    LET holder == lookupSymbol(hoistState, scopePath, substring4(symbolOf(symbol).identifier))
                    IN /\ holder # <<>>
                       /\ symbolOf(holder[1]).kind = "variable"
                       /\ symbolOf(holder[1]).accessRestriction = symbolOf(symbol).accessRestriction
                       /\ symbolOf(holder[1]).isInstanceMember = symbolOf(symbol).isInstanceMember
                       /\ symbolOf(holder[1]).type.name = propertyTypeOf(symbol)

\* the identifiers of the symbol table of a scope, in the order of their insertion
keysOf(scope) == [i \in 1..Len(scope.symbolTable) |-> scope.symbolTable[i].key]

\* C10: the second pass over a script leaves a global scope with the scope
\* paths and the symbol tables of the first pass, and the analyzer
\* diagnostics of the first pass.
C10_Idempotence ==
    (passes >= 2 /\ hoistPhase = "analyzed") =>
        /\ DOMAIN globalScope.scopes = DOMAIN previousPass.scopes
        /\ \A scopePath \in DOMAIN globalScope.scopes \cap DOMAIN previousPass.scopes :
              keysOf(globalScope.scopes[scopePath]) = keysOf(previousPass.scopes[scopePath])
        /\ analyzerDiagnostic = previousPass.diagnostics

\* the symbol is held by the symbol table of some scope
inSomeTable(symbol) == \E scopePath \in DOMAIN globalScope.scopes : symbol \in symbolsIn(scopePath)

\* a diagnostic of a duplicate declaration names the identifier of the symbol
duplicateReported(symbol) ==
    \E i \in 1..Len(analyzerDiagnostic) :
        /\ analyzerDiagnostic[i].identifier = symbolOf(symbol).identifier
        /\ analyzerDiagnostic[i].message \in {"Symbol is already declared", "Duplicated symbol"}

\* C11: after hoist, every identifier of a symbol table has one holder, a
\* holder has at least one symbol and only a holder of functions has several,
\* and every symbol that hoist created and that found its identifier taken
\* (it is in no symbol table) is reported as a duplicate declaration.
C11_OverloadTotality ==
    hoistReturned =>
        /\ \A scopePath \in DOMAIN globalScope.scopes :
              LET table == globalScope.scopes[scopePath].symbolTable IN
              \A i \in 1..Len(table) :
                  /\ Len(table[i].symbols) >= 1
                  /\ Len(table[i].symbols) > 1 =>
                        \A k \in 1..Len(table[i].symbols) : symbolOf(table[i].symbols[k]).kind = "function"
                  /\ \A j \in 1..Len(table) : table[j].key = table[i].key => j = i
        /\ \A symbol \in 1..Len(globalScope.symbols) :
              inSomeTable(symbol) \/ duplicateReported(symbol)

\* the variable that hoistFunc makes for a property accessor get_X or set_X
isPropertyVariable(symbol) ==
    /\ symbolOf(symbol).kind = "variable"
    /\ \E f \in 1..Len(globalScope.symbols) :
          /\ isAccessor(f)
          /\ substring4(symbolOf(f).identifier) = symbolOf(symbol).identifier
          /\ symbolOf(f).scopePath = symbolOf(symbol).scopePath

\* the holders of a symbol table: one for an identifier, never empty, several
\* symbols only when they are functions, and no overload of a holder reported
holdersWellFormed ==
    \A scopePath \in DOMAIN globalScope.scopes :
        LET table == globalScope.scopes[scopePath].symbolTable IN
        \A i \in 1..Len(table) :
            /\ Len(table[i].symbols) >= 1
            /\ \A j \in 1..Len(table) : table[j].key = table[i].key => j = i
            /\ Len(table[i].symbols) > 1 =>
                  \A k \in 1..Len(table[i].symbols) :
                      /\ symbolOf(table[i].symbols[k]).kind = "function"
                      /\ \A d \in 1..Len(analyzerDiagnostic) :
                            ~(/\ analyzerDiagnostic[d].message = "Symbol is already declared"
                              /\ analyzerDiagnostic[d].place = symbolOf(table[i].symbols[k]).linkedNode
                              /\ symbolOf(table[i].symbols[k]).linkedNode # NoNode)

\* C11 as amended: the holders are well formed, and a symbol that found its
\* identifier taken is reported as a duplicate declaration unless it is the
\* property variable of an accessor, which is dropped without a diagnostic.
C11_OverloadTotalityAmended ==
    hoistReturned =>
        /\ holdersWellFormed
        /\ \A symbol \in 1..Len(globalScope.symbols) :
              inSomeTable(symbol) \/ duplicateReported(symbol) \/ isPropertyVariable(symbol)

\* a holder of two overloads, a reported duplicate and a property variable
\* that was dropped
C11_Witness ==
    /\ hoistPhase = "hoisted"
    /\ \E scopePath \in DOMAIN globalScope.scopes :
          \E i \in 1..Len(globalScope.scopes[scopePath].symbolTable) :
              Len(globalScope.scopes[scopePath].symbolTable[i].symbols) > 1
    /\ \E symbol \in 1..Len(globalScope.symbols) : ~inSomeTable(symbol) /\ duplicateReported(symbol)
    /\ \E symbol \in 1..Len(globalScope.symbols) :
          ~inSomeTable(symbol) /\ ~duplicateReported(symbol) /\ isPropertyVariable(symbol)

\* the scopes of the bodies of functions: their last identifier is anonymous
anonymousScopes(scopes) ==
    {scopePath \in DOMAIN scopes : scopePath # <<>> /\ isAnonymousIdentifier(Last(scopePath))}

\* C12: after hoist, a scope path leads to the scope of one node: two
\* functions that were declared by different nodes have different body scopes,
\* the body scope of a function is linked to the node of the function, and
\* every anonymous identifier that was issued made a scope of its own.
C12_ScopePathUniqueness ==
    hoistReturned =>
        /\ \A f, g \in 1..Len(globalScope.symbols) :
              (/\ symbolOf(f).kind = "function" /\ symbolOf(g).kind = "function"
               /\ symbolOf(f).functionScopePath # undefined
               /\ symbolOf(f).functionScopePath = symbolOf(g).functionScopePath)
                  => symbolOf(f).linkedNode = symbolOf(g).linkedNode
        /\ \A f \in 1..Len(globalScope.symbols) :
              (symbolOf(f).kind = "function" /\ symbolOf(f).functionScopePath # undefined) =>
                  /\ symbolOf(f).functionScopePath[1] \in DOMAIN globalScope.scopes
                  /\ globalScope.scopes[symbolOf(f).functionScopePath[1]].linkedNode = symbolOf(f).linkedNode
        /\ passes = 1 => Cardinality(anonymousScopes(globalScope.scopes)) = s_uniqueIdentifier + 1

\* two overloads under one function holder scope, next to the scope of a
\* class and the scope of a namespace
C12_Witness ==
    /\ hoistPhase = "hoisted"
    /\ \E p, q \in anonymousScopes(globalScope.scopes) :
          p # q /\ SubSeq(p, 1, Len(p) - 1) = SubSeq(q, 1, Len(q) - 1)
    /\ <<"N">> \in DOMAIN globalScope.scopes
    /\ <<"N", "D">> \in DOMAIN globalScope.scopes

\* C13: after hoist, the declaring scope path of every symbol of a symbol
\* table is the path of a scope, and the holder of the identifier of the
\* symbol in that scope holds the symbol.
C13_DeclaringScopeResolves ==
    hoistReturned =>
        \A symbol \in 1..Len(globalScope.symbols) :
            inSomeTable(symbol) =>
                /\ tryResolveActiveScope(hoistState, symbolOf(symbol).scopePath)
                /\ symbol \in Range(lookupSymbol(hoistState, symbolOf(symbol).scopePath,
                                                  symbolOf(symbol).identifier))

-----------------------------------------------------------------------------
(* The inspector that caches its results itself (completion.ts): the cache *)
(* s_inspectedResults is the record map, a file is analyzed as soon as it  *)
(* is inspected and nothing is queued.                                     *)

\* the AnalyzedScope the cache holds for the URI, as another result refers to
\* it: object is the identity of the AnalyzedScope, stamp the analysis that
\* made the full scope it had then
scopeOf(s, uri) ==
    [uri |-> uri, stamp |-> getRecord(s.recordList, uri).analyzerScope.stamp,
     object |-> getRecord(s.recordList, uri).analyzerScope.object]

\* the include paths inspectInternal collects the scopes of
includePathsOf(s, targetUri, predefinedUri) ==
    IF /\ world.implicitMutualInclusion
       /\ ~endsWithPredefined(targetUri)
       /\ predefinedUri # None
    THEN SelectSeq(recordKeys(s.recordList),
                   LAMBDA uri : /\ startsWith(uri, resolveUri(predefinedUri, <<".">>))
                                /\ endsWithAs(uri)
                                /\ uri # targetUri)
    ELSE world.includes[targetUri]

\* the result of an inspection is stored; the result the URI has keeps its
\* AnalyzedScope, which takes the new full scope and loses its pure buffer
storeResult(collected, targetUri) ==
    LET known == hasRecord(collected.s.recordList, targetUri)
        version == IF known THEN getRecord(collected.s.recordList, targetUri).ast + 1 ELSE 1
        stamp == collected.s.clock + 1
        record == [uri |-> targetUri,
                   inMap |-> TRUE,
                   isOpen |-> targetUri \in world.open,
                   diagnosticsInParser |-> <<parserDiagnostic(targetUri, version)>>,
                   diagnosticsInAnalyzer |-> <<analyzerDiagnosticOf(targetUri, stamp)>>,
                   rawTokens |-> version,
                   ast |-> version,
                   includePathTokens |-> world.includes[targetUri],
                   analyzerScope |->
                       [stamp |-> stamp, ast |-> version, includeScopes |-> collected.scopes,
                        object |-> IF known
                                   THEN getRecord(collected.s.recordList, targetUri).analyzerScope.object
                                   ELSE stamp,
                        pureBuffer |-> 0]]
    IN [collected.s EXCEPT !.recordList = setRecord(@, record), !.clock = stamp]

RECURSIVE inspectInternal(_, _, _)
RECURSIVE collectIncluded(_, _, _, _, _)
collectIncluded(s, target, predefinedUri, includedUris, includedScopes) ==
    IF includedUris = <<>> THEN [s |-> s, scopes |-> includedScopes]
    ELSE LET relativeUri == Head(includedUris)
             uri == resolveUri(target, relativeUri)
             missing == fileNotFound(target, findToken(world.includes[target], relativeUri, 1))
             next(inspected) ==
                 collectIncluded(inspected, target, predefinedUri, Tail(includedUris),
                                 Append(includedScopes, scopeOf(inspected, uri)))
         IN IF hasRecord(s.recordList, uri) THEN next(s)
            ELSE IF readFileContent(uri) THEN next(inspectInternal(s, uri, predefinedUri))
            ELSE collectIncluded([s EXCEPT !.diagnostic = Append(@, missing)],
                                 target, predefinedUri, Tail(includedUris), includedScopes)

collectIncludedScope(s, target, predefinedUri, includedUris) ==
    collectIncluded(s, target, predefinedUri, includedUris,
                    IF target # predefinedUri /\ predefinedUri # None
                       /\ hasRecord(s.recordList, predefinedUri)
                    THEN <<scopeOf(s, predefinedUri)>>
                    ELSE <<>>)

inspectInternal(s, targetUri, predefinedUri) ==
    storeResult(collectIncludedScope(s, targetUri, predefinedUri,
                                     includePathsOf(s, targetUri, predefinedUri)),
                targetUri)

isContainInIncludedScopes(includedScopes, targetUri) ==
    \E i \in 1..Len(includedScopes) : includedScopes[i].uri = targetUri

refreshScopeInIncludedScopes(s, includedScopes) ==
    [i \in 1..Len(includedScopes) |-> scopeOf(s, includedScopes[i].uri)]

\* the files that include the inspected one are analyzed again, in the order
\* of the cache
RECURSIVE reanalyzeDepended(_, _, _)
reanalyzeDepended(s, includedFile, i) ==
    IF i > Len(s.recordList) THEN s
    ELSE LET dependedFile == s.recordList[i]
             stamp == s.clock + 1
             reanalyzed ==
                 [dependedFile EXCEPT
                     !.analyzerScope = [stamp |-> stamp, ast |-> dependedFile.ast,
                                        includeScopes |-> refreshScopeInIncludedScopes(s, @.includeScopes),
                                        object |-> stamp, pureBuffer |-> 0],
                     !.diagnosticsInAnalyzer = <<analyzerDiagnosticOf(dependedFile.uri, stamp)>>]
         IN IF isContainInIncludedScopes(dependedFile.analyzerScope.includeScopes, includedFile)
            THEN reanalyzeDepended([s EXCEPT !.recordList[i] = reanalyzed, !.clock = stamp],
                                   includedFile, i + 1)
            ELSE reanalyzeDepended(s, includedFile, i + 1)

\* checkInspectPredefined, first loop: the nearest as.predefined of the cache
RECURSIVE inspectedPredefined(_, _)
inspectedPredefined(s, dirs) ==
    IF dirs = <<>> THEN None
    ELSE IF hasRecord(s.recordList, Append(Head(dirs), predefinedFileName))
    THEN Append(Head(dirs), predefinedFileName)
    ELSE inspectedPredefined(s, Tail(dirs))

\* checkInspectPredefined, second loop: the nearest as.predefined of the disk
RECURSIVE readablePredefined(_)
readablePredefined(dirs) ==
    IF dirs = <<>> THEN None
    ELSE IF readFileContent(Append(Head(dirs), predefinedFileName))
    THEN Append(Head(dirs), predefinedFileName)
    ELSE readablePredefined(Tail(dirs))

RECURSIVE checkInspectPredefined(_, _)
RECURSIVE inspectFileAndCache(_, _, _)
RECURSIVE inspectAllFiles(_, _)
inspectAllFiles(s, uris) ==
    IF uris = <<>> THEN s
    ELSE inspectAllFiles(inspectFileAndCache(s, Head(uris), FALSE), Tail(uris))

inspectAllFilesUnderDirectory(s, dirUri) ==
    inspectAllFiles(s, SelectSeq(DiskOrder,
                                 LAMBDA uri : uri \in world.disk /\ startsWith(uri, dirUri) /\ endsWithAs(uri)))

checkInspectPredefined(s, targetUri) ==
    LET dirs == getParentDirectoryList(targetUri)
        inspect(predefinedUri) ==
            IF predefinedUri = None THEN [s |-> s, uri |-> None]
            ELSE [s |-> inspectAllFilesUnderDirectory(inspectInternal(s, predefinedUri, None),
                                                      resolveUri(predefinedUri, <<".">>)),
                  uri |-> predefinedUri]
    IN IF inspectedPredefined(s, dirs) # None
       THEN [s |-> s, uri |-> inspectedPredefined(s, dirs)]
       ELSE inspect(readablePredefined(dirs))

\* inspectFile of completion.ts
inspectFileAndCache(s, targetUri, dependencies) ==
    LET reanalyze(inspected) ==
            IF dependencies THEN reanalyzeDepended(inspected, targetUri, 1) ELSE inspected
        inspect(found) == reanalyze(inspectInternal(found.s, targetUri, found.uri))
    IN inspect(checkInspectPredefined(s, targetUri))

-----------------------------------------------------------------------------
(* Specification of the predefined discovery: a workspace with a           *)
(* sub-directory, each directory with or without an as.predefined, served  *)
(* either by the AnalysisResolver or by the caching inspector.             *)

NestedFiles == {UriA, UriD, UriPredefined, UriSubPredefined}

\* a.as includes a file that does not exist, sub/d.as and as.predefined
\* include a.as
NestedGraph ==
    (UriA :> << <<"b.as">> >>) @@ (UriD :> << <<"/", "a.as">> >>)
        @@ (UriPredefined :> << <<"a.as">> >>) @@ (UriSubPredefined :> <<>>)

makeNestedWorld(predefined, implicitMutualInclusion, cachingInspector) ==
    [disk |-> {UriA, UriD} \cup predefined,
     includes |-> NestedGraph,
     open |-> {UriA},
     implicitMutualInclusion |-> implicitMutualInclusion,
     cachingInspector |-> cachingInspector]

NestedWorlds ==
    {makeNestedWorld(predefined, implicitMutualInclusion, cachingInspector) :
        predefined \in SUBSET {UriPredefined, UriSubPredefined},
        implicitMutualInclusion \in BOOLEAN,
        cachingInspector \in BOOLEAN}

InitPredefined ==
    /\ HoistIdle
    /\ tokens = <<>>
    /\ world \in NestedWorlds
    /\ recordList = <<>>
    /\ directQueue = <<>>
    /\ indirectQueue = <<>>
    /\ lazyIndirectQueue = <<>>
    /\ analyzerTask = <<>>
    /\ resolvedPredefinedFilepaths = {}
    /\ diagnostic = <<>>
    /\ clock = 0
    /\ enqueued = 0
    /\ edits = 0
    /\ lastOp = [op |-> "init", uri |-> None, pending |-> FALSE, promoted |-> FALSE]
    /\ published = <<>>
    /\ popLog = <<>>

\* the document is opened or edited in the workspace the resolver serves
EditNested(uri) ==
    /\ ~world.cachingInspector
    /\ Edit(uri)

HandleAnalyzeNested ==
    /\ ~world.cachingInspector
    /\ HandleAnalyze

\* the document is opened or edited in the workspace the caching inspector serves
InspectFile(uri, dependencies) ==
    /\ world.cachingInspector
    /\ edits < MaxEdits
    /\ readFileContent(uri)
    /\ commit(inspectFileAndCache(resolverState, uri, dependencies))
    /\ edits' = edits + 1
    /\ lastOp' = [op |-> "inspectFile", uri |-> uri, pending |-> FALSE, promoted |-> FALSE,
                  dependencies |-> dependencies,
                  retokenized |-> retokenized(recordList, recordList') \ {uri}]
    /\ UNCHANGED world

NextPredefined ==
    \/ \E uri \in NestedFiles : EditNested(uri)
    \/ HandleAnalyzeNested
    \/ \E uri \in NestedFiles, dependencies \in BOOLEAN : InspectFile(uri, dependencies)

SpecPredefined == InitPredefined /\ [][NextPredefined]_vars

\* AnalyzedScope.pureScope: the pure buffer is made of the full scope when
\* the AnalyzedScope has none
pureScope(s, uri) ==
    LET i == indexOf(s.recordList, uri, 1) IN
    IF s.recordList[i].analyzerScope.pureBuffer # 0 THEN s
    ELSE [s EXCEPT !.recordList[i].analyzerScope.pureBuffer = s.recordList[i].analyzerScope.stamp]

\* a reader takes the pure scope of a cached file
ReadPureScope(uri) ==
    /\ world.cachingInspector
    /\ hasRecord(recordList, uri)
    /\ commit(pureScope(resolverState, uri))
    /\ lastOp' = [op |-> "pureScope", uri |-> uri, pending |-> FALSE, promoted |-> FALSE]
    /\ UNCHANGED <<world, edits>>

\* the workspaces the caching inspector serves: the nested ones, and the
\* chain a.as -> b.as -> c.as without as.predefined
CachedWorlds ==
    {w \in NestedWorlds : w.cachingInspector}
        \cup {makeWorld(SourceFiles, ChainGraph, {UriA}, FALSE) @@ [cachingInspector |-> TRUE]}

InitCache ==
    /\ HoistIdle
    /\ tokens = <<>>
    /\ world \in CachedWorlds
    /\ recordList = <<>>
    /\ directQueue = <<>>
    /\ indirectQueue = <<>>
    /\ lazyIndirectQueue = <<>>
    /\ analyzerTask = <<>>
    /\ resolvedPredefinedFilepaths = {}
    /\ diagnostic = <<>>
    /\ clock = 0
    /\ enqueued = 0
    /\ edits = 0
    /\ lastOp = [op |-> "init", uri |-> None, pending |-> FALSE, promoted |-> FALSE]
    /\ published = <<>>
    /\ popLog = <<>>

NextCache ==
    \/ \E uri \in NestedFiles \cup SourceFiles, dependencies \in BOOLEAN : InspectFile(uri, dependencies)
    \/ \E uri \in NestedFiles \cup SourceFiles : ReadPureScope(uri)

SpecCache == InitCache /\ [][NextCache]_vars

-----------------------------------------------------------------------------
(* Specification of the resolver whose record map loses records: the map   *)
(* is handed to the resolver by its owner, which deletes the record of a   *)
(* document that is gone.                                                  *)

Evict(uri) ==
    /\ edits < MaxEdits
    /\ hasRecord(recordList, uri)
    /\ commit([resolverState EXCEPT !.recordList = deleteRecord(@, uri)])
    /\ edits' = edits + 1
    /\ lastOp' = [op |-> "evict", uri |-> uri, pending |-> isInQueue(resolverState, uri),
                  promoted |-> FALSE]
    /\ UNCHANGED world

NextEvict ==
    \/ \E uri \in SourceFiles : Edit(uri)
    \/ HandleAnalyze
    \/ \E uri \in SourceFiles : Flush(uri)
    \/ FlushAll
    \/ \E uri \in SourceFiles \cup {UriPredefined} : Evict(uri)

SpecEvict == Init /\ [][NextEvict]_vars

-----------------------------------------------------------------------------
(* Properties of the delayed task *)

\* C15: at most one timeout of the delayed analyzer task is pending at any
\* time (a request made while one is pending replaces it, so the replaced
\* callback never fires), and the task that fires analyzes the record as it
\* is at that moment: the analyzer scope it stores is the one of the record's
\* current AST, also when the record was overwritten after the request.
C15_SingleDelayedTask ==
    /\ Len(analyzerTask) <= 1
    /\ lastOp.op = "handleAnalyze" =>
           \A i \in 1..Len(popLog) :
               popLog[i].ast = getRecord(recordList, popLog[i].uri).ast

\* the task fired for a record that was requested, overwritten and requested
\* again before the firing: the element of the second request is still queued
C15_Witness ==
    /\ lastOp.op = "handleAnalyze"
    /\ UriPredefined \notin world.disk
    /\ edits = 2
    /\ Len(popLog) = 1
    /\ popLog[1].ast = 2
    /\ \E i \in 1..Len(directQueue) :
           directQueue[i].uri = popLog[1].uri /\ directQueue[i].seq > popLog[1].seq
    /\ Len(analyzerTask) = 1

\* C16: after every request and after every pop driven by the timer, a
\* timeout of the delayed task is pending if and only if some tier is
\* non-empty; it waits 10 ms when the direct tier is non-empty, otherwise
\* 100 ms when the indirect tier is non-empty, otherwise 500 ms; with all
\* tiers empty nothing is pending and the scheduler stops.
C16_DelayByTier ==
    lastOp.op \in {"request", "handleAnalyze"} =>
        /\ analyzerTask # <<>> <=> ~quiescent
        /\ directQueue # <<>> => analyzerTask = <<10>>
        /\ directQueue = <<>> /\ indirectQueue # <<>> => analyzerTask = <<100>>
        /\ directQueue = <<>> /\ indirectQueue = <<>> /\ lazyIndirectQueue # <<>> =>
               analyzerTask = <<500>>

\* the timer popped the last element of the direct and the indirect tier
\* and left a closed file waiting in the lazy-indirect tier
C16_Witness ==
    /\ lastOp.op = "handleAnalyze"
    /\ popLog # <<>>
    /\ directQueue = <<>> /\ indirectQueue = <<>> /\ lazyIndirectQueue # <<>>
    /\ analyzerTask = <<500>>

-----------------------------------------------------------------------------
(* Properties of the predefined discovery and of the include paths *)

\* what the discovery of the workspace's inspector returns in the current
\* state of the caches
discovered(targetUri) ==
    IF world.cachingInspector
    THEN checkInspectPredefined(resolverState, targetUri).uri
    ELSE findPredefinedUri(resolverState, targetUri).uri

\* C17: for every target URI and every state of the caches, the discovery
\* returns the as.predefined of the nearest ancestor directory that contains
\* one, never the one of a farther ancestor, whether or not either of them
\* was inspected before.
C17_NearestPredefined ==
    \A targetUri \in NestedFiles \cap world.disk :
        LET dirs == getParentDirectoryList(targetUri) IN
        \A i \in 1..Len(dirs) :
            (/\ Append(dirs[i], predefinedFileName) \in world.disk
             /\ \A j \in 1..(i - 1) : Append(dirs[j], predefinedFileName) \notin world.disk)
                => discovered(targetUri) = Append(dirs[i], predefinedFileName)

\* the include paths of a record once its as.predefined is discovered
includePathsFound(found, uri) ==
    resolveIncludePaths(recordKeys(found.s.recordList), getRecord(found.s.recordList, uri), found.uri)

resolvedIncludePaths(uri) == includePathsFound(findPredefinedUri(resolverState, uri), uri)

resolvedIncludeUris(uri) ==
    {resolveUri(uri, resolvedIncludePaths(uri)[k]) : k \in 1..Len(resolvedIncludePaths(uri))}

\* C19: with implicitMutualInclusion on and an as.predefined found, the
\* include set of a .as file contains every other known .as file under the
\* directory of that as.predefined, never the file itself, and still the
\* paths of the file's explicit #include directives.
C19_ImplicitAndExplicit ==
    (~world.cachingInspector /\ world.implicitMutualInclusion) =>
        \A i \in 1..Len(recordList) :
            LET record == recordList[i]
                P == predefinedOf(record.uri)
            IN (P # None /\ endsWithAs(record.uri)) =>
                   /\ \A j \in 1..Len(recordList) :
                          (/\ j # i
                           /\ endsWithAs(recordList[j].uri)
                           /\ startsWith(recordList[j].uri, Dir(P)))
                              => recordList[j].uri \in resolvedIncludeUris(record.uri)
                   /\ record.uri \notin resolvedIncludeUris(record.uri)
                   /\ \A k \in 1..Len(record.includePathTokens) :
                          resolveUri(record.uri, record.includePathTokens[k])
                              \in resolvedIncludeUris(record.uri)

-----------------------------------------------------------------------------
(* Properties of the eviction *)

\* C20: once a record is removed from the record map, no queued element and
\* no delayed task analyzes that record or publishes diagnostics for its
\* URI, in whichever tier it was pending when it was removed.
C20_EvictionInvalidates ==
    /\ \A i \in 1..Len(popLog) : hasRecord(recordList, popLog[i].uri)
    /\ \A i \in 1..Len(published) : hasRecord(recordList, published[i].uri)

-----------------------------------------------------------------------------
(* Termination of the scheduler *)

\* C21: include cycles are benign: after finitely many requests, with
\* records that include each other cyclically and a timer that keeps firing,
\* the scheduler makes finitely many analyses and reaches, for good, the
\* state where the three tiers are empty and no timeout is pending.
C21_CyclesAreBenign == <>[](quiescent /\ analyzerTask = <<>>)

\* a.as and b.as include each other, both were analyzed with the scope of
\* the other, every request was made and the scheduler is at rest
C21_Witness ==
    /\ world.includes[UriA] = CycleGraph[UriA] /\ world.includes[UriB] = CycleGraph[UriB]
    /\ edits = MaxEdits
    /\ hasRecord(recordList, UriA) /\ hasRecord(recordList, UriB)
    /\ \E k \in 1..Len(getRecord(recordList, UriA).analyzerScope.includeScopes) :
           getRecord(recordList, UriA).analyzerScope.includeScopes[k].uri = UriB
    /\ \E k \in 1..Len(getRecord(recordList, UriB).analyzerScope.includeScopes) :
           getRecord(recordList, UriB).analyzerScope.includeScopes[k].uri = UriA
    /\ quiescent /\ analyzerTask = <<>>

-----------------------------------------------------------------------------
(* The language services that answer a request of the editor from the
   global scope of an analyzed file.  A call is written on one line, every
   token one character wide: the callee at 0, `(` at 1, argument i (from 1)
   at 2i, the comma after it at 2i + 1, `)` after the last argument. *)

\* void f(int x, int y) {}
FuncF2 == NodeFunc("void", "f", "undefined", FALSE, <<Param("int", "x"), Param("int", "y")>>)

\* class P { private int x; }
ClassP == NodeClass("P", <<>>, <<>>, <<NodeVar("int", <<"x">>, "private")>>)

\* enum G { g0, g1 }
EnumG == NodeEnum("G", <<"g0", "g1">>)

\* namespace O::Q { enum H { h0 } }
NamespaceO == NodeNamespace(<<"O", "Q">>, <<NodeEnum("H", <<"h0">>)>>)

\* void P() {}
FuncP == NodeFunc("void", "P", "undefined", FALSE, <<>>)

\* void reset() property {}
FuncReset == NodeFunc("void", "reset", "undefined", TRUE, <<>>)

\* class R { bool ready { get {} set {} } int get_ready() {} }
ClassR ==
    NodeClass("R", <<>>, <<>>,
              << NodeVirtualProp("bool", "ready", "undefined", "block", "block"),
                 NodeFunc("int", "get_ready", "undefined", FALSE, <<>>) >>)

\* class S : P, A {}
ClassS == NodeClass("S", <<>>, <<"P", "A">>, <<>>)

\* class T : A, P {}
ClassT == NodeClass("T", <<>>, <<"A", "P">>, <<>>)

ServiceScripts ==
    { <<SetterU, FuncReset>>, <<ClassC, FuncReset>>, <<ClassB, SetterU>>,
      <<FuncF, FuncF2>>, <<FuncF2>>, <<ClassA, FuncF>>, <<ClassP, FuncF>>,
      <<EnumG, NamespaceO>>, <<NamespaceO, FuncF>>,
      <<ClassP, FuncP>>, <<EnumG, ClassA, EnumG>>, <<FuncF, ClassP, ClassP>>,
      <<ClassA, ClassB, ClassC>>, <<ClassC, ClassB, ClassA>>, <<ClassB, ClassA>>,
      <<NamespaceN, ClassA, ClassB>>, <<ClassR, FuncF>>,
      <<ClassP, ClassA, ClassS>>, <<ClassA, ClassP, ClassT>> }

argumentStart(i) == 2 * i
argumentNextIsComma(arguments, i) == i < arguments
\* the range of callerArgumentsNode: from `(` to the end of `)`
argumentsRange(arguments) == [start |-> 1, end |-> IF arguments = 0 THEN 3 ELSE 2 * arguments + 2]

\* the carets of the line of the call, up to the token after `)`
Carets(arguments) == 0..(argumentsRange(arguments).end + 1)

\* the symbol is in the symbol table of the scope that declares it
isDeclared(symbol) == symbol \in symbolsIn(symbolOf(symbol).scopePath)

\* the FunctionCall hints the analyzer leaves in the global scope: one for a
\* call that resolved to a declared function, with as many arguments as the
\* function has parameters
FunctionCallHints ==
    {[complement |-> "FunctionCall", scopePath |-> symbolOf(callee).scopePath,
      identifier |-> symbolOf(callee).identifier,
      arguments |-> Len(nodeAt(symbolOf(callee).linkedNode).paramList)] :
        callee \in {symbol \in 1..Len(globalScope.symbols) :
                        /\ symbolOf(symbol).kind = "function" /\ symbolOf(symbol).linkedNode # NoNode
                        /\ isDeclared(symbol)}}

\* the loop over the parameters of an overload: the index of the last
\* argument that starts at or before the caret, one more when a comma follows it
RECURSIVE activeIndexFrom(_, _, _, _, _)
activeIndexFrom(hint, paramList, caret, i, activeIndex) ==
    IF i > Len(paramList) THEN activeIndex
    ELSE IF i <= hint.arguments /\ ~(caret < argumentStart(i))
    THEN activeIndexFrom(hint, paramList, caret, i + 1,
                         IF argumentNextIsComma(hint.arguments, i) THEN (i - 1) + 1 ELSE i - 1)
    ELSE activeIndexFrom(hint, paramList, caret, i + 1, activeIndex)

getFunctionSignature(hint, expectedCallee, caret) ==
    LET paramList == nodeAt(symbolOf(expectedCallee).linkedNode).paramList IN
    [callee |-> expectedCallee, parameters |-> Len(paramList),
     activeParameter |-> activeIndexFrom(hint, paramList, caret, 1, 0)]

signaturesOf(hint, overloadList, caret) ==
    [i \in 1..Len(overloadList) |-> getFunctionSignature(hint, overloadList[i], caret)]

\* the signatures of the first FunctionCall hint whose argument list
\* holds the caret; the hints after it are not looked at
RECURSIVE provideSignatureHelp(_, _, _)
provideSignatureHelp(completionHints, caret, i) ==
    IF i > Len(completionHints) THEN <<>>
    ELSE LET hint == completionHints[i]
             nodeRange == argumentsRange(hint.arguments)
             shouldExtend == nodeRange.end > caret
             end == nodeRange.end + (IF shouldExtend THEN 1 ELSE 0)
             expectedCallee == findSymbolWithParent(globalScope, hint.scopePath, hint.identifier)
         IN IF hint.complement # "FunctionCall" THEN provideSignatureHelp(completionHints, caret, i + 1)
            ELSE IF nodeRange.start <= caret /\ caret <= end
            THEN IF ~isFunctionHolder(globalScope, expectedCallee)
                 THEN provideSignatureHelp(completionHints, caret, i + 1)
                 ELSE signaturesOf(hint, expectedCallee, caret)
            ELSE provideSignatureHelp(completionHints, caret, i + 1)

\* the AutocompleteInstanceMember hints the analyzer leaves in the global
\* scope: one for a member access on a value of a declared class or interface
InstanceMemberHints ==
    {[complement |-> "AutocompleteInstanceMember", targetType |-> type, accessScope |-> <<>>] :
        type \in {symbol \in 1..Len(globalScope.symbols) :
                      /\ symbolOf(symbol).kind = "type"
                      /\ symbolOf(symbol).linkedNode # NoNode
                      /\ nodeAt(symbolOf(symbol).linkedNode).nodeName \in {"Class", "Interface"}
                      /\ isDeclared(symbol)}}

\* the NamespaceAccess hints the analyzer leaves for `N::` and `T::`: the
\* scope of a namespace, or the members scope of a declared type
NamespaceAccessHints ==
    {[complement |-> "AutocompleteNamespaceAccess", targetType |-> 0, accessScope |-> path] :
        path \in {path \in DOMAIN globalScope.scopes :
                     \/ globalScope.scopes[path].namespaceList # <<>>
                     \/ \E type \in 1..Len(globalScope.symbols) :
                           /\ symbolOf(type).kind = "type" /\ isDeclared(type)
                           /\ symbolOf(type).membersScopePath = defined(path)}}

isPrefix(path, of) == Len(path) <= Len(of) /\ SubSeq(of, 1, Len(path)) = path

isSymbolInstanceMember(holder) ==
    /\ symbolOf(holder[1]).kind \in {"variable", "function"}
    /\ symbolOf(holder[1]).isInstanceMember

\* the type symbol of the class whose members scope the path is
classOfScope(path) ==
    IF path = <<>> THEN <<>>
    ELSE SelectSeq(lookupSymbol(globalScope, SubSeq(path, 1, Len(path) - 1), path[Len(path)]),
                   LAMBDA symbol : symbolOf(symbol).kind = "type")

\* the nearest scope of a class at or around the path, <<>> when there is none
RECURSIVE outerClassScope(_)
outerClassScope(path) ==
    IF path = <<>> THEN <<>>
    ELSE IF /\ globalScope.scopes[path].linkedNode # NoNode
            /\ nodeAt(globalScope.scopes[path].linkedNode).nodeName = "Class"
    THEN path
    ELSE outerClassScope(SubSeq(path, 1, Len(path) - 1))

RECURSIVE canDownCast(_, _, _)
canDownCast(from, to, depth) ==
    \/ from = to
    \/ /\ depth > 0
       /\ symbolOf(from).baseList # undefined
       /\ \E k \in 1..Len(symbolOf(from).baseList[1]) :
             /\ symbolOf(from).baseList[1][k].typeOrFunc # 0
             /\ canDownCast(symbolOf(from).baseList[1][k].typeOrFunc, to, depth - 1)

\* a private member is accessible in the scope that declares it and in the
\* scopes inside, a protected member also in the classes derived from its class
canAccessInstanceMember(caretScope, holder) ==
    LET declared == symbolOf(holder[1])
        checkingClass == classOfScope(outerClassScope(caretScope))
        declaredClass == classOfScope(declared.scopePath)
    IN IF declared.kind = "type" \/ declared.accessRestriction = "undefined" THEN TRUE
       ELSE IF declared.accessRestriction = "private" THEN isPrefix(declared.scopePath, caretScope)
       ELSE /\ checkingClass # <<>> /\ declaredClass # <<>>
            /\ canDownCast(checkingClass[1], declaredClass[1], Len(globalScope.symbols))

item(label, holder) == [label |-> label, symbol |-> holder]

\* a scope whose linked node is absent or is a Namespace node
isPureNamespaceScope(scope) ==
    \/ globalScope.scopes[scope].linkedNode = NoNode
    \/ nodeAt(globalScope.scopes[scope].linkedNode).nodeName = "Namespace"

\* the symbols of the scope and the namespaces directly under it; an item
\* without a symbol is a namespace item (of kind Module)
getCompletionSymbolsInScope(scope, includeInstanceMember) ==
    LET table == globalScope.scopes[scope].symbolTable
        skipped(holder) ==
            /\ ~includeInstanceMember
            /\ \/ isSymbolInstanceMember(holder)
               \/ symbolOf(holder[1]).kind = "variable" /\ symbolOf(holder[1]).identifier = "this"
        children == {path \in DOMAIN globalScope.scopes :
                        /\ Len(path) = Len(scope) + 1 /\ isPrefix(scope, path)
                        /\ isPureNamespaceScope(path)}
    IN {item(table[i].key, table[i].symbols) : i \in {i \in 1..Len(table) : ~skipped(table[i].symbols)}}
       \cup {item(path[Len(path)], <<>>) : path \in children}

getCompletionMembersInScope(caretScope, symbolScope) ==
    LET table == globalScope.scopes[symbolScope].symbolTable IN
    {item(table[i].key, table[i].symbols) :
        i \in {i \in 1..Len(table) : /\ isSymbolInstanceMember(table[i].symbols)
                                      /\ canAccessInstanceMember(caretScope, table[i].symbols)}}

searchMissingCompletion(caretScope, completion) ==
    LET targetType == symbolOf(completion.targetType)
        typeScope == Append(targetType.scopePath, targetType.identifier)
    IN IF completion.complement = "AutocompleteInstanceMember"
       THEN IF targetType.membersScopePath = undefined THEN {}
            ELSE IF typeScope \notin DOMAIN globalScope.scopes THEN {}
            ELSE getCompletionMembersInScope(caretScope, typeScope)
       ELSE IF completion.complement = "AutocompleteNamespaceAccess"
       THEN getCompletionSymbolsInScope(completion.accessScope, FALSE)
       ELSE {}

\* the candidates of the first hint that holds the caret and has any;
\* found is FALSE when no hint has a candidate
RECURSIVE checkMissingCompletionInScope(_, _, _, _)
checkMissingCompletionInScope(completionHints, caretScope, inRange, i) ==
    IF i > Len(completionHints) THEN [found |-> FALSE, items |-> {}]
    ELSE LET hint == completionHints[i]
             result == searchMissingCompletion(caretScope, hint)
         IN IF hint.complement \notin {"AutocompleteInstanceMember", "AutocompleteNamespaceAccess"}
            THEN checkMissingCompletionInScope(completionHints, caretScope, inRange, i + 1)
            ELSE IF inRange[i] /\ result # {} THEN [found |-> TRUE, items |-> result]
            ELSE checkMissingCompletionInScope(completionHints, caretScope, inRange, i + 1)

\* inRange[i]: the caret lies in the range of hint i
provideCompletion(completionHints, caretScope, inRange) ==
    LET prioritizedCompletion == checkMissingCompletionInScope(completionHints, caretScope, inRange, 1) IN
    IF prioritizedCompletion.found THEN prioritizedCompletion.items
    ELSE UNION {getCompletionSymbolsInScope(SubSeq(caretScope, 1, n), TRUE) : n \in 0..Len(caretScope)}

InitService ==
    /\ world = makeWorld({UriA}, ChainGraph, {UriA}, FALSE)
    /\ recordList = <<>>
    /\ directQueue = <<>>
    /\ indirectQueue = <<>>
    /\ lazyIndirectQueue = <<>>
    /\ analyzerTask = <<>>
    /\ resolvedPredefinedFilepaths = {}
    /\ diagnostic = <<>>
    /\ clock = 0
    /\ enqueued = 0
    /\ edits = 0
    /\ lastOp = [op |-> "init", uri |-> None, pending |-> FALSE, promoted |-> FALSE]
    /\ published = <<>>
    /\ popLog = <<>>
    /\ script \in ServiceScripts
    /\ explicitPropertyAccessor \in BOOLEAN
    /\ hoistEnumParentScope \in BOOLEAN
    /\ globalScope = createGlobalScope
    /\ analyzeQueue = <<>>
    /\ analyzerDiagnostic = <<>>
    /\ s_uniqueIdentifier = -1
    /\ hoistPhase = "parsed"
    /\ executed = <<>>
    /\ passes = 1
    /\ previousPass = [scopes |-> createGlobalScope.scopes, symbols |-> <<>>, diagnostics |-> <<>>]
    /\ response = [method |-> "none"]
    /\ tokens = <<>>

\* textDocument/signatureHelp on the analyzed file; response keeps the first
\* request of a run and its answer
ProvideSignatureHelp ==
    /\ hoistPhase = "analyzed"
    /\ response.method = "none"
    /\ \E hint \in FunctionCallHints : \E caret \in Carets(hint.arguments) :
          response' = [method |-> "signatureHelp", hint |-> hint, caret |-> caret,
                       result |-> provideSignatureHelp(<<hint>>, caret, 1)]
    /\ UNCHANGED <<resolverVars, hoistVars, tokens>>

\* textDocument/completion on the analyzed file, the caret in a scope of the file
ProvideCompletion ==
    /\ hoistPhase = "analyzed"
    /\ response.method = "none"
    /\ \E hint \in InstanceMemberHints \cup NamespaceAccessHints :
       \E caretScope \in DOMAIN globalScope.scopes : \E inRange \in BOOLEAN :
          response' = [method |-> "completion", hint |-> hint, caretScope |-> caretScope,
                       inRange |-> inRange,
                       result |-> provideCompletion(<<hint>>, caretScope, <<inRange>>)]
    /\ UNCHANGED <<resolverVars, hoistVars, tokens>>

NextService ==
    \/ HoistAfterParsed
    \/ AnalyzeAfterHoisted
    \/ ProvideSignatureHelp
    \/ ProvideCompletion

SpecService == InitService /\ [][NextService]_vars

\* a caller of the scope inserts a child scope once the file is hoisted:
\* under a scope of the first two levels, with the identifier of a child it
\* has or a new one, and without a node or with the node of a statement
InsertScope ==
    /\ hoistPhase = "hoisted"
    /\ response.method = "none"
    /\ \E parent \in {path \in DOMAIN globalScope.scopes : Len(path) <= 1} :
       \E identifier \in {path[Len(path)] : path \in {q \in DOMAIN globalScope.scopes :
                                                         Len(q) = Len(parent) + 1 /\ isPrefix(parent, q)}}
                          \cup {"Z"} :
       \E linkedNode \in {NoNode} \cup {<<i>> : i \in 1..Len(script)} :
       \E check \in BOOLEAN :
          LET found == IF check THEN insertScopeAndCheck(hoistState, parent, identifier, linkedNode)
                       ELSE insertScope(hoistState, parent, identifier, linkedNode)
          IN /\ globalScope' = [globalScope EXCEPT !.scopes = found.scopes]
             /\ analyzerDiagnostic' = found.diagnostics
             /\ response' = [method |-> "insertScope", check |-> check, parent |-> parent,
                             identifier |-> identifier, linkedNode |-> linkedNode,
                             before |-> globalScope.scopes, after |-> found.scopes,
                             reported |-> SubSeq(found.diagnostics, Len(analyzerDiagnostic) + 1,
                                                 Len(found.diagnostics))]
    /\ UNCHANGED <<script, explicitPropertyAccessor, hoistEnumParentScope, analyzeQueue, s_uniqueIdentifier,
                   hoistPhase, executed, passes, previousPass>>
    /\ UNCHANGED <<resolverVars, tokens>>

NextScope ==
    \/ HoistAfterParsed
    \/ AnalyzeAfterHoisted
    \/ InsertScope

SpecScope == InitService /\ [][NextScope]_vars

-----------------------------------------------------------------------------
(* Properties of the services *)

\* the commas of the call that end at or before the caret
commasBefore(hint, caret) ==
    Cardinality({i \in 1..(hint.arguments - 1) : 2 * i + 2 <= caret})

caretInsideArguments(hint, caret) ==
    argumentsRange(hint.arguments).start < caret /\ caret < argumentsRange(hint.arguments).end

min(a, b) == IF a < b THEN a ELSE b

\* C22: for a caret inside the argument list of a call, signature help
\* returns one signature per overload of the function holder of the callee,
\* and the active parameter of a signature of an overload with parameters is
\* the lesser of the number of commas before the caret and the number of
\* parameters less one: never negative, never the number of parameters.
C22_ActiveParameter ==
    (response.method = "signatureHelp" /\ caretInsideArguments(response.hint, response.caret)) =>
        LET holder == findSymbolWithParent(globalScope, response.hint.scopePath, response.hint.identifier) IN
        /\ Len(response.result) = Len(holder)
        /\ \A i \in 1..Len(response.result) :
              /\ response.result[i].callee = holder[i]
              /\ response.result[i].parameters > 0 =>
                    /\ response.result[i].activeParameter =
                          min(commasBefore(response.hint, response.caret), response.result[i].parameters - 1)
                    /\ response.result[i].activeParameter >= 0
                    /\ response.result[i].activeParameter < response.result[i].parameters

\* C23: when the caret lies in the range of a member-access hint for a
\* value of type T, completion returns the instance members of the members
\* scope of T that are accessible from the scope of the caret and nothing
\* else, also when there is none; of a class with a base, the public members
\* of the base are among them, its private members and `this` are not.
C23_MemberCompletion ==
    (response.method = "completion" /\ response.inRange
        /\ response.hint.complement = "AutocompleteInstanceMember"
        /\ symbolOf(response.hint.targetType).membersScopePath # undefined) =>
        LET scope == symbolOf(response.hint.targetType).membersScopePath[1]
            table == globalScope.scopes[scope].symbolTable
        IN /\ response.result =
                 {item(table[i].key, table[i].symbols) :
                     i \in {i \in 1..Len(table) :
                               /\ isSymbolInstanceMember(table[i].symbols)
                               /\ canAccessInstanceMember(response.caretScope, table[i].symbols)}}
           /\ \A entry \in response.result : entry.label # "this"

\* the type symbols of the enums of the script
Enums ==
    {type \in 1..Len(globalScope.symbols) :
        /\ symbolOf(type).kind = "type"
        /\ symbolOf(type).linkedNode # NoNode
        /\ nodeAt(symbolOf(type).linkedNode).nodeName = "Enum"
        /\ isDeclared(type)}

\* C24: with hoistEnumParentScope, after hoist every member of every enum
\* is found by a shallow lookup in the scope that declares the enum as well
\* as in the members scope of the enum, in whatever depth of namespaces the
\* enum is; without the setting, only in the members scope of the enum.
C24_EnumMembersInParentScope ==
    hoistReturned =>
        \A type \in Enums :
            LET members == nodeAt(symbolOf(type).linkedNode).enumMemberList IN
            \A k \in 1..Len(members) :
                /\ symbolOf(type).membersScopePath # undefined
                /\ lookupSymbol(globalScope, symbolOf(type).membersScopePath[1], members[k]) # <<>>
                /\ lookupSymbol(globalScope, symbolOf(type).scopePath, members[k]) # <<>>
                      <=> hoistEnumParentScope

-----------------------------------------------------------------------------
(* Further properties of the resolver *)

\* C25: flush(undefined) analyzes all files of the re-analysis queues: when
\* it returns, the direct, the indirect and the lazy-indirect tier are all
\* empty, whatever they held at the call, also when only one of the indirect
\* and the lazy-indirect tier held an element.
C25_FlushAllDrains ==
    (lastOp.op = "flush" /\ lastOp.uri = None) =>
        /\ directQueue = <<>>
        /\ indirectQueue = <<>>
        /\ lazyIndirectQueue = <<>>

\* what an analysis may not change of a record: everything of another
\* record, and of the analyzed record all that the inspector made
sameButAnalysis(before, after, analyzedUri) ==
    IF before.uri = analyzedUri
    THEN /\ after.rawTokens = before.rawTokens
         /\ after.includePathTokens = before.includePathTokens
         /\ after.ast = before.ast
         /\ after.isOpen = before.isOpen
         /\ after.diagnosticsInParser = before.diagnosticsInParser
    ELSE after = before

\* C26: the analysis or re-analysis of a record by the delayed task changes
\* only the analyzer scope and the analyzer diagnostics of that record: its
\* tokens, preprocessed output, AST, open flag and parser diagnostics stay,
\* and no field of another record that existed before changes.
C26_AnalysisFrame ==
    [][(TimerFired /\ popLog' # <<>>) =>
          \A j \in 1..Len(recordList) : sameButAnalysis(recordList[j], recordList'[j], popLog'[1].uri)]_vars

-----------------------------------------------------------------------------
(* Inheritance and the order of the declarations *)

\* the places of the top-level declarations of a class or interface of that name
declarationsOf(nodeName, identifier) ==
    {i \in 1..Len(script) : script[i].nodeName = nodeName /\ script[i].identifier = identifier}

\* statement i declares a class or interface whose base list names the one
\* that statement j declares, and neither name is declared twice
isDeclaredBase(nodeName, i, j) ==
    /\ script[i].nodeName = nodeName /\ script[j].nodeName = nodeName
    /\ script[j].identifier \in Range(script[i].baseList)
    /\ \A k \in 1..Len(script) :
          (script[k].nodeName \in {"Class", "Interface"}
              /\ script[k].identifier \in {script[i].identifier, script[j].identifier}) => k \in {i, j}

\* the symbols of the members scope of the top-level declaration i that a derived type takes
inheritableMembers(i) ==
    {symbol \in symbolsIn(<<script[i].identifier>>) :
        ~isPrivateMember(symbol) /\ symbolOf(symbol).identifier # "this"}

\* C27: the copy of the base members of every class runs after the member
\* hoisting of every class, so that the members scope of a derived class
\* holds every non-private member other than `this` of its direct base,
\* whether the base is declared before or after the derived class.
C27_BaseMembersCopied ==
    hoistReturned =>
        /\ \A m, n \in 1..Len(executed) :
              (executed[m].task = "hoistClassMembers" /\ executed[n].task = "copyBaseMembers") => m < n
        /\ \A i, j \in 1..Len(script) :
              isDeclaredBase("Class", i, j) =>
                  inheritableMembers(j) \subseteq symbolsIn(<<script[i].identifier>>)

\* C28: for the chain C : B, B : A the members scope of C holds every
\* non-private member of the indirect base A, in every order of the three
\* declarations.
C28_IndirectBaseMembers ==
    hoistReturned =>
        \A i, j, k \in 1..Len(script) :
            (isDeclaredBase("Class", i, j) /\ isDeclaredBase("Class", j, k)) =>
                \A symbol \in symbolsIn(<<script[k].identifier>>) :
                    (~isPrivateMember(symbol) /\ symbolOf(symbol).identifier # "this"
                        /\ symbolOf(symbol).scopePath = <<script[k].identifier>>)
                        => symbol \in symbolsIn(<<script[i].identifier>>)

\* C29: the members scope of an interface I with the base J holds every
\* member that J declares, whether J is declared before or after I.
C29_InterfaceBaseMembers ==
    hoistReturned =>
        \A i, j \in 1..Len(script) :
            isDeclaredBase("Interface", i, j) =>
                \A symbol \in symbolsIn(<<script[j].identifier>>) :
                    symbolOf(symbol).scopePath = <<script[j].identifier>>
                        => symbol \in symbolsIn(<<script[i].identifier>>)

-----------------------------------------------------------------------------
(* Declarations that fail *)

\* what hoisting has made: the scopes with their linked nodes and the
\* holders of their symbol tables, the deferred functions that ran or wait,
\* and the anonymous identifiers that were issued
effectOf(scopes, queue, ran, unique) ==
    [scopes |-> [path \in DOMAIN scopes |->
                    [linkedNode |-> scopes[path].linkedNode,
                     holders |-> [i \in 1..Len(scopes[path].symbolTable) |->
                                     [key |-> scopes[path].symbolTable[i].key,
                                      symbols |-> Len(scopes[path].symbolTable[i].symbols)]]]],
     analyzeQueue |-> [i \in 1..Len(queue) |-> [task |-> queue[i].task, place |-> queue[i].place,
                                                scope |-> queue[i].scope]],
     executed |-> ran,
     unique |-> unique]

\* the first pass over the script without its last declaration
hoistedWithoutLast ==
    drainHoistQueue(hoistScript([scopes |-> createGlobalScope.scopes, symbols |-> <<>>, hoistQueue |-> <<>>,
                                 analyzeQueue |-> <<>>, diagnostics |-> <<>>, unique |-> -1,
                                 executed |-> <<>>],
                                <<>>, SubSeq(script, 1, Len(script) - 1), "hoistQueue"))

\* the last declaration of the script is a function, class or enum whose
\* symbol was refused as already declared
lastDeclarationFailed ==
    /\ script[Len(script)].nodeName \in {"Func", "Class", "Enum"}
    /\ \E i \in 1..Len(analyzerDiagnostic) :
          /\ analyzerDiagnostic[i].message = "Symbol is already declared"
          /\ analyzerDiagnostic[i].place = <<Len(script)>>

\* C30: when the insertion of the symbol of a function, class or enum
\* fails with the diagnostic of a duplicate declaration, hoisting that
\* declaration has no other effect: no scope is made or linked again, no
\* symbol inserted, nothing pushed on the hoist or the analyze queue.
C30_FailedDeclarationHasNoEffect ==
    (hoistPhase = "hoisted" /\ passes = 1 /\ lastDeclarationFailed) =>
        /\ effectOf(globalScope.scopes, analyzeQueue, executed, s_uniqueIdentifier) =
              effectOf(hoistedWithoutLast.scopes, hoistedWithoutLast.analyzeQueue,
                       hoistedWithoutLast.executed, hoistedWithoutLast.unique)
        /\ analyzerDiagnostic =
              Append(hoistedWithoutLast.diagnostics,
                     [message |-> "Symbol is already declared",
                      identifier |-> script[Len(script)].identifier, place |-> <<Len(script)>>])

-----------------------------------------------------------------------------
(* Functions and their scopes *)

\* the symbols of the functions that the script declares and the scope accepted
DeclaredFunctions ==
    {f \in 1..Len(globalScope.symbols) :
        /\ symbolOf(f).kind = "function"
        /\ symbolOf(f).linkedNode # NoNode
        /\ nodeAt(symbolOf(f).linkedNode).nodeName = "Func"
        /\ symbolOf(f).identifier = nodeAt(symbolOf(f).linkedNode).identifier
        /\ isDeclared(f)}

hasAccessorPrefix(identifier) == startsWith4(identifier, "get_") \/ startsWith4(identifier, "set_")

\* a variable made for the function: named as the function without the
\* prefix, of its scope, its return type, its instance and access profile
propertyVariables(f) ==
    {v \in 1..Len(globalScope.symbols) :
        /\ symbolOf(v).kind = "variable"
        /\ symbolOf(v).identifier = substring4(symbolOf(f).identifier)
        /\ symbolOf(v).scopePath = symbolOf(f).scopePath
        /\ symbolOf(v).type = symbolOf(f).type
        /\ symbolOf(v).isInstanceMember = symbolOf(f).isInstanceMember
        /\ symbolOf(v).accessRestriction = symbolOf(f).accessRestriction}

accessorDiagnostics(f) ==
    {i \in 1..Len(analyzerDiagnostic) :
        /\ analyzerDiagnostic[i].message = "Property accessor must start with get_ or set_"
        /\ analyzerDiagnostic[i].place = symbolOf(f).linkedNode}

C32_InsertScopeIdempotent ==
    response.method = "insertScope" =>
        LET path == Append(response.parent, response.identifier)
            before == response.before
            after == response.after
            given == response.linkedNode
        IN /\ DOMAIN after = DOMAIN before \cup {path}
           /\ \A other \in DOMAIN before : other # path => after[other] = before[other]
           /\ path \notin DOMAIN before => after[path] = createSymbolScope(given)
           /\ path \in DOMAIN before =>
                 /\ after[path].symbolTable = before[path].symbolTable
                 /\ after[path].namespaceList = before[path].namespaceList
                 /\ after[path].linkedNode =
                       IF before[path].linkedNode = NoNode THEN given ELSE before[path].linkedNode
           /\ response.reported # <<>> <=>
                 (response.check /\ given # NoNode /\ path \in DOMAIN before
                     /\ before[path].linkedNode \notin {NoNode, given})
           /\ Len(response.reported) <= 1
           /\ \A i \in 1..Len(response.reported) :
                 /\ response.reported[i].message = "Symbol is already defined"
                 /\ response.reported[i].identifier = response.identifier

\* the scope of a class is asked for again with the node of another
\* statement: the scope keeps its node and the duplicate is reported
C32_Witness ==
    /\ response.method = "insertScope" /\ response.check
    /\ response.linkedNode # NoNode
    /\ Append(response.parent, response.identifier) \in DOMAIN response.before
    /\ response.before[Append(response.parent, response.identifier)].linkedNode
          \notin {NoNode, response.linkedNode}
    /\ response.after = response.before
    /\ response.reported # <<>>

\* the places of the nodes of a list of nodes and of the nodes they hold
RECURSIVE placesUnder(_, _)
placesUnder(nodes, place) ==
    UNION {{Append(place, i)} \cup placesUnder(childNodes(nodes[i]), Append(place, i)) : i \in 1..Len(nodes)}

\* the places of the destructors of the script
Destructors ==
    {place \in placesUnder(script, <<>>) : nodeAt(place).nodeName = "Func" /\ nodeAt(place).head = "~"}

holderScopeOf(f) == Append(symbolOf(f).scopePath, symbolOf(f).identifier)
bodyScopeOf(f) == symbolOf(f).functionScopePath[1]

\* the scopes directly under a scope
childScopes(scope) ==
    {path \in DOMAIN globalScope.scopes : Len(path) = Len(scope) + 1 /\ isPrefix(scope, path)}

\* C33: every hoisted function that is no destructor has a body scope of its
\* own, linked to its node, under a new anonymous identifier, in the one
\* holder scope that the declaring scope has under the identifier of the
\* function: n overloads give one holder scope without a linked node with n
\* distinct anonymous children; a destructor makes no scope, no symbol and
\* no deferred function.
C33_FunctionScopes ==
    hoistReturned =>
        /\ \A f \in DeclaredFunctions :
              /\ symbolOf(f).functionScopePath # undefined
              /\ holderScopeOf(f) \in DOMAIN globalScope.scopes
              /\ globalScope.scopes[holderScopeOf(f)].linkedNode = NoNode
              /\ bodyScopeOf(f) \in childScopes(holderScopeOf(f))
              /\ isAnonymousIdentifier(bodyScopeOf(f)[Len(bodyScopeOf(f))])
              /\ globalScope.scopes[bodyScopeOf(f)].linkedNode = symbolOf(f).linkedNode
              /\ \A g \in DeclaredFunctions : bodyScopeOf(g) = bodyScopeOf(f) => g = f
              /\ {path \in childScopes(holderScopeOf(f)) : isAnonymousIdentifier(path[Len(path)])} =
                    {bodyScopeOf(g) : g \in {g \in DeclaredFunctions : holderScopeOf(g) = holderScopeOf(f)}}
        /\ \A place \in Destructors :
              /\ \A path \in DOMAIN globalScope.scopes : globalScope.scopes[path].linkedNode # place
              /\ \A symbol \in 1..Len(globalScope.symbols) : symbolOf(symbol).linkedNode # place
              /\ \A i \in 1..Len(executed) : executed[i].place # place
              /\ \A i \in 1..Len(analyzeQueue) : analyzeQueue[i].place # place

\* the two constructors of class A have two body scopes in the holder scope
\* A::A, and the destructor of class D of the namespace N was passed by
C33_Witness ==
    /\ hoistPhase = "hoisted"
    /\ Destructors # {}
    /\ \E f, g \in DeclaredFunctions :
          /\ f # g
          /\ holderScopeOf(f) = <<"A", "A">> /\ holderScopeOf(g) = <<"A", "A">>
          /\ bodyScopeOf(f) # bodyScopeOf(g)

-----------------------------------------------------------------------------
(* The constructors of the base class *)

\* the functions that the members scope of the top-level class i holds under an identifier
functionsNamed(i, identifier) ==
    LET holder == lookupSymbol(hoistState, <<script[i].identifier>>, identifier)
    IN IF isFunctionHolder(hoistState, holder) THEN holder ELSE <<>>

\* statement i declares a class, and no other class or interface has its name
isOnlyDeclaration(i) ==
    /\ script[i].nodeName = "Class"
    /\ \A k \in 1..Len(script) :
          (script[k].nodeName \in {"Class", "Interface"} /\ script[k].identifier = script[i].identifier)
              => k = i

\* statement j declares the first base of the class that statement i declares
isFirstBase(i, j) ==
    /\ isOnlyDeclaration(i) /\ isOnlyDeclaration(j)
    /\ script[i].baseList # <<>>
    /\ script[i].baseList[1] = script[j].identifier

\* the functions `super` of class i are the constructors of class j, one for
\* one, with the parameters of the constructor and private access
isSuperOf(i, j) ==
    LET super == functionsNamed(i, "super")
        constructors == functionsNamed(j, script[j].identifier)
    IN /\ Len(super) = Len(constructors)
       /\ \A n \in 1..Len(super) :
             /\ symbolOf(super[n]).linkedNode = symbolOf(constructors[n]).linkedNode
             /\ symbolOf(super[n]).parameterTypes = symbolOf(constructors[n]).parameterTypes
             /\ symbolOf(super[n]).accessRestriction = "private"

\* C34: after hoist a class whose first base has k constructors holds in its
\* members scope a function holder `super` of exactly k overloads, the
\* constructors of the first base with their parameters and private access;
\* later bases give none, and a class without a base, or whose first base
\* has no constructor, has no symbol `super`.
C34_SuperConstructors ==
    hoistReturned =>
        /\ \A i, j \in 1..Len(script) : isFirstBase(i, j) => isSuperOf(i, j)
        /\ \A i \in 1..Len(script) :
              (isOnlyDeclaration(i) /\ script[i].baseList = <<>>)
                  => lookupSymbol(hoistState, <<script[i].identifier>>, "super") = <<>>

-----------------------------------------------------------------------------
(* Completion of namespaces *)

\* the scopes directly under a scope that a namespace declared
namespacesIn(scope) == {path \in childScopes(scope) : globalScope.scopes[path].namespaceList # <<>>}

\* the scopes whose symbols the answered request lists: the scope before
\* `::` when the caret is in the range of a NamespaceAccess hint, the scope
\* of the caret and the scopes around it when it is in the range of no hint
completedScopes ==
    IF response.inRange
    THEN {response.hint.accessScope}
    ELSE {SubSeq(response.caretScope, 1, n) : n \in 0..Len(response.caretScope)}

\* C35: completion has a namespace item (of kind Module) for a child scope
\* if and only if a namespace declared that scope; the holder scopes of
\* functions, the scopes of classes, interfaces and enums and the get_ and
\* set_ scopes of virtual properties give none, in the completion of a scope
\* and in the completion after `::`.
C35_NamespaceItems ==
    (/\ response.method = "completion"
     /\ response.inRange => response.hint.complement = "AutocompleteNamespaceAccess") =>
        {entry \in response.result : entry.symbol = <<>>} =
            {item(path[Len(path)], <<>>) : path \in UNION {namespacesIn(scope) : scope \in completedScopes}}

-----------------------------------------------------------------------------
(* Includes that have no record yet *)

\* the files on disk that the record includes
includedOnDisk(record) ==
    {uri \in world.disk :
        /\ uri # record.uri
        /\ includesUri(recordKeys(recordList), record, uri, predefinedOf(record.uri))}

\* the analyzer scope of the record has a scope that an analysis of uri made
hasScopeOf(record, uri) ==
    \E k \in 1..Len(record.analyzerScope.includeScopes) :
        /\ record.analyzerScope.includeScopes[k].uri = uri
        /\ record.analyzerScope.includeScopes[k].stamp > 0

analyzedRecords == {i \in 1..Len(recordList) : recordList[i].inMap /\ recordList[i].analyzerScope.stamp > 0}

\* a record was analyzed without the scope of a file on disk that it includes
analyzedWithoutInclude ==
    \E i \in analyzedRecords : \E uri \in includedOnDisk(recordList[i]) : ~hasScopeOf(recordList[i], uri)

includesClosed ==
    \A i \in analyzedRecords : \A uri \in includedOnDisk(recordList[i]) :
        hasRecord(recordList, uri) /\ hasScopeOf(recordList[i], uri)

\* C36: when a file is analyzed while a file on disk that it includes has no
\* record, the analysis runs without the scope of that file and has it
\* inspected, and when the three tiers are empty again the includer was
\* analyzed anew with a scope of the included file among its include scopes.
C36_IncludedFileInspected ==
    /\ [](\A i \in analyzedRecords : \A uri \in includedOnDisk(recordList[i]) : hasRecord(recordList, uri))
    /\ [](quiescent => includesClosed)
    /\ analyzedWithoutInclude ~> (quiescent /\ includesClosed)

\* only a.as was opened; b.as, which it includes, was inspected by the
\* analysis of a.as, and a.as has the scope of b.as at rest
C36_Witness ==
    /\ world.includes[UriA] = ChainGraph[UriA] /\ world.includes[UriB] = ChainGraph[UriB]
    /\ edits = 1
    /\ hasRecord(recordList, UriA) /\ hasRecord(recordList, UriB)
    /\ hasScopeOf(getRecord(recordList, UriA), UriB)
    /\ quiescent

-----------------------------------------------------------------------------
(* The scopes the cached results hold of each other *)

cachedResults == {i \in 1..Len(recordList) : recordList[i].inMap}

\* the results that hold a scope of the URI among their included scopes
includersOf(uri) ==
    {i \in cachedResults :
        recordList[i].uri # uri /\ isContainInIncludedScopes(recordList[i].analyzerScope.includeScopes, uri)}

\* every included scope of every result is the AnalyzedScope that the cache
\* holds for its path
includedScopesAreCurrent ==
    \A i \in cachedResults : \A k \in 1..Len(recordList[i].analyzerScope.includeScopes) :
        LET scope == recordList[i].analyzerScope.includeScopes[k]
        IN scope.object = getRecord(recordList, scope.uri).analyzerScope.object

\* C37: when inspectFile(content, u, dependencies = true) has returned, every
\* cached file that includes u was analyzed again, after u and against the
\* scope of u, and was neither tokenized nor parsed again; every included
\* scope of every cached file is the very AnalyzedScope the cache holds for
\* its path; the pure scope of a file is never older than its full scope.
C37_CachedScopesCurrent ==
    world.cachingInspector =>
        /\ (lastOp.op = "inspectFile" /\ lastOp.dependencies) =>
              /\ \A i \in includersOf(lastOp.uri) :
                    /\ recordList[i].analyzerScope.stamp > getRecord(recordList, lastOp.uri).analyzerScope.stamp
                    /\ recordList[i].uri \notin lastOp.retokenized
              /\ includedScopesAreCurrent
        /\ \A i \in cachedResults :
              recordList[i].analyzerScope.pureBuffer \in {0, recordList[i].analyzerScope.stamp}


\* ---------------------------------------------------------------------------------------------
\* The recursive-descent parser (parseFromTokens)
\* ---------------------------------------------------------------------------------------------

\* the longest tail that is appended to a head of tokens
MaxTokens == 3

Identifiers == {"x"}

Reserved == {"{", "}", "(", ")", ";", ":", ",", "if", "for", "do", "return", "break", "switch", "case", "default"}

Words == Identifiers \cup Reserved

\* TokenObject.kind; TokenObject.text is the word itself
kind(word) == IF word \in Identifiers THEN "identifier" ELSE "reserved"

\* x x ( ) {
FunctionHead == <<"x", "x", "(", ")", "{">>

\* x x ( ) { switch ( x ) {
SwitchHead == FunctionHead \o <<"switch", "(", "x", ")", "{">>

TokenLists ==
    {head \o body : head \in {<<>>, FunctionHead, SwitchHead},
                    body \in UNION {[1..n -> Words] : n \in 1..MaxTokens}}

\* ReadingState: pos is the index of the next token, counted from 1
isEnd(pos) == pos > Len(tokens)

next(pos) == IF pos > Len(tokens) THEN tokens[Len(tokens)] ELSE tokens[pos]

step(pos) == pos + 1

expect(pos, word) ==
    IF isEnd(pos) THEN [ok |-> FALSE, pos |-> pos]
    ELSE IF kind(next(pos)) # "reserved" THEN [ok |-> FALSE, pos |-> pos]
    ELSE IF next(pos) # word THEN [ok |-> FALSE, pos |-> pos]
    ELSE [ok |-> TRUE, pos |-> step(pos)]

\* what a parse function returns, and the position it leaves the reading state at
tried(r, pos) == [r |-> r, pos |-> pos]

\* the call never returns
diverges == [r |-> "diverges", pos |-> 0]

parseDATATYPE(pos) == tried("node", step(pos))

parseTYPE(pos) == parseDATATYPE(pos)

parseEXPRVALUE(pos) ==
    IF kind(next(pos)) = "reserved" THEN tried("null", pos) ELSE tried("node", step(pos))

exprterm2Stop(exprvalue) ==
    IF exprvalue.r = "null" THEN exprvalue
    ELSE IF next(exprvalue.pos) \in {".", "[", "(", "++", "--"} THEN tried("node", step(exprvalue.pos))
    ELSE exprvalue

parseEXPRTERM2(pos) ==
    exprterm2Stop(parseEXPRVALUE(IF next(pos) \in {"-", "+", "!", "++", "--", "~", "@"} THEN step(pos) ELSE pos))

parseEXPRTERM(pos) == parseEXPRTERM2(pos)

parseEXPROP(pos) ==
    IF next(pos) \in {"+", "-", "*", "/", "%", "**", "==", "!=", "<", "<=", ">", ">=", "is",
                      "&&", "||", "^^", "and", "or", "xor", "&", "|", "^", "<<", ">>", ">>>"}
    THEN tried("node", step(pos)) ELSE tried("null", pos)

parseASSIGNOP(pos) ==
    IF next(pos) \in {"=", "+=", "-=", "*=", "/=", "|=", "&=", "^=", "%=", "**=", "<<=", ">>=", ">>>="}
    THEN tried("node", step(pos)) ELSE tried("null", pos)

RECURSIVE parseEXPR(_)
exprTail(exprterm, exprop) ==
    IF exprop.r = "null" THEN exprterm ELSE tried("node", parseEXPR(exprop.pos).pos)

exprOp(exprterm) ==
    IF exprterm.r = "null" THEN exprterm ELSE exprTail(exprterm, parseEXPROP(exprterm.pos))

parseEXPR(pos) == exprOp(parseEXPRTERM(pos))

parseCONDITION(pos) == parseEXPR(pos)

RECURSIVE parseASSIGN(_)
assignTail(condition, op) ==
    IF op.r = "null" THEN condition ELSE tried("node", parseASSIGN(op.pos).pos)

assignOp(condition) ==
    IF condition.r = "null" THEN condition ELSE assignTail(condition, parseASSIGNOP(condition.pos))

parseASSIGN(pos) == assignOp(parseCONDITION(pos))

exprstatEnd(assign) ==
    IF assign.r = "null" THEN assign ELSE tried("node", expect(assign.pos, ";").pos)

parseEXPRSTAT(pos) ==
    IF next(pos) = ";" THEN tried("null", step(pos)) ELSE exprstatEnd(parseASSIGN(pos))

varEnd(expr) ==
    IF expr.r = "null" THEN expr ELSE tried("node", expect(expr.pos, ";").pos)

\* the type, the identifier, '=', the expression, ';'
parseVAR(pos) == varEnd(parseEXPR(expect(step(parseTYPE(pos).pos), "=").pos))

\* the loop of parsePARAMLIST over `length` parameters read so far; the position it leaves the loop at
RECURSIVE paramlistLoop(_, _)
paramlistType(pos, length) ==
    paramlistLoop(IF kind(next(pos)) = "identifier" THEN step(pos) ELSE pos, length + 1)

paramlistComma(comma, length) ==
    IF ~comma.ok THEN comma.pos ELSE paramlistType(parseTYPE(comma.pos).pos, length)

paramlistLoop(pos, length) ==
    IF isEnd(pos) \/ next(pos) = ")" THEN pos
    ELSE IF length > 0 THEN paramlistComma(expect(pos, ","), length)
    ELSE paramlistType(parseTYPE(pos).pos, length)

parsePARAMLIST(pos) == tried("node", expect(paramlistLoop(expect(pos, "(").pos, 0), ")").pos)

\* The statements. `active` says that a call of parseSTATEMENT that began at the end of the tokens has
\* not returned yet: at the end next() keeps returning the last token whatever the position is, so a
\* call of parseSTATEMENT that begins at the end under such a call does what that call did, without end.
RECURSIVE parseSTATEMENT(_, _)
RECURSIVE parseSTATBLOCK(_, _)
RECURSIVE parseSWITCH(_, _)
RECURSIVE parseCASE(_, _)
RECURSIVE parseFOR(_, _)
RECURSIVE parseWHILE(_, _)
RECURSIVE parseDOWHILE(_, _)
RECURSIVE parseIF(_, _)
RECURSIVE statblockLoop(_, _)
RECURSIVE switchLoop(_, _)
RECURSIVE caseLoop(_, _)
RECURSIVE forIncrement(_, _)

\* `if (statement === 'mismatch' || statement === 'pending') return 'pending'`
pendingOrNode(statement) ==
    IF statement.r = "diverges" THEN statement
    ELSE IF statement.r \in {"mismatch", "pending"} THEN tried("pending", statement.pos)
    ELSE tried("node", statement.pos)

parseBREAK(pos) ==
    IF next(pos) # "break" THEN tried("null", pos) ELSE tried("node", expect(step(pos), ";").pos)

parseCONTINUE(pos) ==
    IF next(pos) # "continue" THEN tried("null", pos) ELSE tried("node", expect(step(pos), ";").pos)

returnEnd(assign) ==
    IF assign.r = "null" THEN tried("pending", assign.pos) ELSE tried("node", expect(assign.pos, ";").pos)

parseRETURN(pos) ==
    IF next(pos) # "return" THEN tried("mismatch", pos) ELSE returnEnd(parseASSIGN(step(pos)))

statementSwitch(switch_) == switch_

statementDowhile(dowhile, pos, active) ==
    IF dowhile.r # "mismatch" THEN dowhile ELSE statementSwitch(parseSWITCH(pos, active))

statementContinue(continue_, pos, active) ==
    IF continue_.r # "null" THEN continue_ ELSE statementDowhile(parseDOWHILE(pos, active), pos, active)

statementBreak(break_, pos, active) ==
    IF break_.r # "null" THEN break_ ELSE statementContinue(parseCONTINUE(pos), pos, active)

statementStatblock(statblock, pos, active) ==
    IF statblock.r # "null" THEN statblock ELSE statementBreak(parseBREAK(pos), pos, active)

statementReturn(return_, pos, active) ==
    IF return_.r # "mismatch" THEN return_ ELSE statementStatblock(parseSTATBLOCK(pos, active), pos, active)

statementWhile(while_, pos, active) ==
    IF while_.r # "mismatch" THEN while_ ELSE statementReturn(parseRETURN(pos), pos, active)

statementFor(for_, pos, active) ==
    IF for_.r # "mismatch" THEN for_ ELSE statementWhile(parseWHILE(pos, active), pos, active)

statementIf(if_, pos, active) ==
    IF if_.r # "mismatch" THEN if_ ELSE statementFor(parseFOR(pos, active), pos, active)

parseSTATEMENT(pos, active) ==
    IF isEnd(pos) /\ active THEN diverges
    ELSE statementIf(parseIF(pos, active \/ isEnd(pos)), pos, active \/ isEnd(pos))

statblockVar(var_, active) ==
    IF var_.r # "null" THEN statblockLoop(var_.pos, active) ELSE statblockLoop(step(var_.pos), active)

statblockStatement(statement, active) ==
    IF statement.r = "diverges" THEN statement
    ELSE IF statement.r = "pending" THEN statblockLoop(step(statement.pos), active)
    ELSE IF statement.r # "mismatch" THEN statblockLoop(statement.pos, active)
    ELSE statblockVar(parseVAR(statement.pos), active)

\* the loop of parseSTATBLOCK
statblockLoop(pos, active) ==
    IF isEnd(pos) THEN tried("node", pos)
    ELSE IF next(pos) = "}" THEN tried("node", pos)
    ELSE statblockStatement(parseSTATEMENT(pos, active), active)

statblockEnd(statements) ==
    IF statements.r = "diverges" THEN statements ELSE tried("node", expect(statements.pos, "}").pos)

parseSTATBLOCK(pos, active) ==
    IF next(pos) # "{" THEN tried("null", pos) ELSE statblockEnd(statblockLoop(step(pos), active))

switchCase(case_, active) ==
    IF case_.r = "diverges" THEN case_
    ELSE IF case_.r = "mismatch" THEN tried("node", case_.pos)
    ELSE switchLoop(case_.pos, active)

\* the loop of parseSWITCH
switchLoop(pos, active) ==
    IF isEnd(pos) \/ next(pos) = "}" THEN tried("node", pos) ELSE switchCase(parseCASE(pos, active), active)

switchEnd(cases) ==
    IF cases.r = "diverges" THEN cases ELSE tried("node", expect(cases.pos, "}").pos)

switchCondition(assign, active) ==
    IF assign.r = "null" THEN tried("pending", assign.pos)
    ELSE switchEnd(switchLoop(expect(expect(assign.pos, ")").pos, "{").pos, active))

parseSWITCH(pos, active) ==
    IF next(pos) # "switch" THEN tried("mismatch", pos)
    ELSE switchCondition(parseASSIGN(expect(step(pos), "(").pos), active)

\* an iteration of the loop of parseCASE that begins at the end of the tokens and does not leave the
\* loop is followed by iterations that do the same: the loop has no test of isEnd
caseStatement(statement, pos, active) ==
    IF statement.r = "diverges" THEN statement
    ELSE IF statement.r = "mismatch" THEN tried("node", statement.pos)
    ELSE IF isEnd(pos) THEN diverges
    ELSE caseLoop(statement.pos, active)

\* the loop of parseCASE
caseLoop(pos, active) == caseStatement(parseSTATEMENT(pos, active), pos, active)

caseExpr(expr, active) ==
    IF expr.r = "null" THEN tried("pending", expr.pos) ELSE caseLoop(expect(expr.pos, ":").pos, active)

parseCASE(pos, active) ==
    IF next(pos) = "case" THEN caseExpr(parseEXPR(step(pos)), active)
    ELSE IF next(pos) = "default" THEN caseLoop(expect(step(pos), ":").pos, active)
    ELSE tried("mismatch", pos)

forIncrementAssign(assign, length) ==
    IF assign.r = "null" THEN assign.pos ELSE forIncrement(assign.pos, length + 1)

\* the loop of parseFOR over the increments; the position it leaves the loop at
forIncrement(pos, length) ==
    IF length > 0 /\ next(pos) # "," THEN pos
    ELSE forIncrementAssign(parseASSIGN(IF length > 0 THEN step(pos) ELSE pos), length)

forCondition(condition, active) ==
    IF condition.r = "null" THEN tried("pending", condition.pos)
    ELSE pendingOrNode(parseSTATEMENT(expect(forIncrement(condition.pos, 0), ")").pos, active))

forInitialVar(var_, active) ==
    IF var_.r = "null" THEN tried("pending", var_.pos) ELSE forCondition(parseEXPRSTAT(var_.pos), active)

\* `parseEXPRSTAT(reading) ?? parseVAR(reading)`
forInitial(exprstat, active) ==
    IF exprstat.r = "null" THEN forInitialVar(parseVAR(exprstat.pos), active)
    ELSE forCondition(parseEXPRSTAT(exprstat.pos), active)

parseFOR(pos, active) ==
    IF next(pos) # "for" THEN tried("mismatch", pos)
    ELSE forInitial(parseEXPRSTAT(expect(step(pos), "(").pos), active)

whileCondition(assign, active) ==
    IF assign.r = "null" THEN tried("pending", assign.pos)
    ELSE pendingOrNode(parseSTATEMENT(expect(assign.pos, ")").pos, active))

parseWHILE(pos, active) ==
    IF next(pos) # "while" THEN tried("mismatch", pos)
    ELSE whileCondition(parseASSIGN(expect(step(pos), "(").pos), active)

dowhileEnd(assign) ==
    IF assign.r = "null" THEN tried("pending", assign.pos)
    ELSE tried("node", expect(expect(assign.pos, ")").pos, ";").pos)

dowhileStatement(statement) ==
    IF statement.r = "diverges" THEN statement
    ELSE IF statement.r \in {"mismatch", "pending"} THEN tried("pending", statement.pos)
    ELSE dowhileEnd(parseASSIGN(expect(expect(statement.pos, "while").pos, "(").pos))

parseDOWHILE(pos, active) ==
    IF next(pos) # "do" THEN tried("mismatch", pos) ELSE dowhileStatement(parseSTATEMENT(step(pos), active))

\* a statement after 'else' that is 'mismatch' or 'pending' leaves the NodeIF without it
ifElse(fs) ==
    IF fs.r = "diverges" THEN fs ELSE tried("node", fs.pos)

ifThen(ts, active) ==
    IF ts.r = "diverges" THEN ts
    ELSE IF ts.r \in {"mismatch", "pending"} THEN tried("pending", ts.pos)
    ELSE IF next(ts.pos) = "else" THEN ifElse(parseSTATEMENT(ts.pos, active))
    ELSE tried("node", ts.pos)

ifCondition(assign, active) ==
    IF assign.r = "null" THEN tried("pending", assign.pos)
    ELSE ifThen(parseSTATEMENT(expect(assign.pos, ")").pos, active), active)

parseIF(pos, active) ==
    IF next(pos) # "if" THEN tried("mismatch", pos)
    ELSE ifCondition(parseASSIGN(expect(step(pos), "(").pos), active)

funcStatblock(statblock) ==
    IF statblock.r = "diverges" THEN statblock ELSE tried("node", statblock.pos)

\* the type, the identifier, the parameters, the body
parseFUNC(pos) == funcStatblock(parseSTATBLOCK(parsePARAMLIST(step(parseTYPE(pos).pos)).pos, FALSE))

\* the loop of parseSCRIPT
RECURSIVE parseSCRIPT(_)
scriptFunc(func) ==
    IF func.r = "diverges" THEN func ELSE parseSCRIPT(func.pos)

parseSCRIPT(pos) ==
    IF isEnd(pos) THEN tried("node", pos) ELSE scriptFunc(parseFUNC(pos))

\* new ReadingState(tokens) reads from the first token
parseFromTokens == parseSCRIPT(1)

\* no file is inspected and no request served while the tokens are parsed
InitParse ==
    /\ HoistIdle
    /\ tokens \in TokenLists
    /\ world = makeWorld({UriA}, ChainGraph, {UriA}, FALSE)
    /\ recordList = <<>>
    /\ directQueue = <<>>
    /\ indirectQueue = <<>>
    /\ lazyIndirectQueue = <<>>
    /\ analyzerTask = <<>>
    /\ resolvedPredefinedFilepaths = {}
    /\ diagnostic = <<>>
    /\ clock = 0
    /\ enqueued = 0
    /\ edits = 0
    /\ lastOp = [op |-> "init", uri |-> None, pending |-> FALSE, promoted |-> FALSE]
    /\ published = <<>>
    /\ popLog = <<>>

ParseFromTokens ==
    /\ response.method = "none"
    /\ tokens # <<>>
    /\ response' = [method |-> "parseFromTokens", result |-> parseFromTokens]
    /\ UNCHANGED <<resolverVars, hoistVars, tokens>>

NextParse == ParseFromTokens

SpecParse == InitParse /\ [][NextParse]_vars

\* C38: parseFromTokens returns on every non-empty list of tokens, with every token read
C38_ParserTerminates ==
    response.method = "parseFromTokens"
        => /\ response.result.r = "node"
           /\ isEnd(response.result.pos)

====
